---- MODULE Spec2Model ----
(***************************************************************************)
(* Verification model of src/find_dead_code.py, the dead code detector   *)
(* for C/C++ sources (collect_files, strip_comments, strip_strings, the    *)
(* symbol recognizers, count_references, analyze_header_includes, main).   *)
(*                                                                         *)
(* A text is a sequence of tokens.  A token stands for the characters it   *)
(* spells: punctuation tokens are single characters, a word token is a run *)
(* of identifier characters (\w).  Adjacent tokens are adjacent characters,*)
(* so two adjacent word tokens spell one longer identifier and "/" next to *)
(* "*" spells a comment opener.  Every regular expression of the program   *)
(* is translated to a matcher over such texts.                             *)
(***************************************************************************)
EXTENDS Integers, Sequences, FiniteSets, TLC

VARIABLES
    \* ---- one run of main() ----
    pc,                 \* position of main()
    root,               \* main: root, the components of the resolved path
    root_exists,        \* whether the project root directory exists
    disk,               \* path -> [readable, text] for the files under the root
    js_files,           \* texts of the *.js files under data/js, or NoDir
    files,              \* main: files
    idx,                \* loop index of the current "for f in files"
    all_contents_raw,   \* main: all_contents_raw
    all_contents_clean, \* main: all_contents_clean
    warnings,           \* paths reported by "Could not read"
    js_contents,        \* main: js_contents
    all_symbols,        \* main: all_symbols (name -> info)
    unused,             \* main: unused (names)
    unused_defines,     \* main: unused_defines (names)
    include_issues,     \* main: include_issues
    orphans,            \* the extern declarations reported in section 4
    ret,                \* value returned by main()
    exit_status,        \* exit status of the process
    \* ---- the lexical normalizer applied to one text ----
    ntext, nstage, nout1, nout2, nclean, nclean2,
    \* ---- one run of upload_html.py ----
    upc,                \* position of the run
    args,               \* the parsed command line
    ufs,                \* the local files, each the sequence of its path components
    reqs,               \* the HTTP requests issued so far, in order
    queue,              \* the uploads of the current loop: [file, target]
    ui,                 \* index of the current loop
    success,            \* uploads that returned True in the current loop
    remote_files,       \* sync_files: remote_files
    list_status,        \* how GET /api/fs/list ended: "none", "ok" or "failed"
    to_delete,          \* sync_files: sorted(to_delete)
    backed_up,          \* backup_critical_files: backed_up
    umode,              \* what the current loop belongs to
    last_mtime,         \* watch_file: last_mtime
    wlog,               \* the polls of watch_file: [mtime, uploaded]
    ustatus,            \* exit status of the process
    \* ---- one call of analyze() of analyze_sonarqube.py ----
    spc,                \* position: "off", "loaded", "analyzed"
    issues,             \* analyze: issues
    project_root,       \* analyze: project_root
    results             \* what analyze returns

mainVars == <<pc, root, root_exists, disk, js_files, files, idx, all_contents_raw,
              all_contents_clean, warnings, js_contents, all_symbols, unused,
              unused_defines, include_issues, orphans, ret, exit_status>>
normVars == <<ntext, nstage, nout1, nout2, nclean, nclean2>>
upVars == <<upc, args, ufs, reqs, queue, ui, success, remote_files, list_status, to_delete,
            backed_up, umode,
            last_mtime, wlog, ustatus>>
sonVars == <<spc, issues, project_root, results>>
vars == <<mainVars, normVars, upVars, sonVars>>

(***************************************************************************)
(* Characters and character classes                                        *)
(***************************************************************************)
NL == "\n"
SP == " "
QUOTE == "\""
BSLASH == "\\"
APOS == "'"

\* The identifiers the texts are written with: each is a run of \w.
WordToks == {"int", "extern", "struct", "class", "define", "include",
             "volatile", "static", "constexpr", "constinit", "const",
             "unsigned", "long",
             "foo", "fn", "setup", "_tmp", "H1_H", "core", "h1", "h", "a",
             "h2", "hpp",
             "CONFIGURATION_SETTINGS_HEADER_H"}

\* The identifiers that start with an underscore (name.startswith("_")).
UnderscoreToks == {"_tmp"}

\* \w
IsWord(t) == t \in WordToks
\* \s
IsSpace(t) == t \in {SP, NL}
\* [\w:<>*&]
IsTypeChar(t) == IsWord(t) \/ t \in {":", "<", ">", "*", "&"}

\* All sequences over A of length at most k.
BSeq(A, k) == UNION {[1..n -> A] : n \in 0..k}

\* content.count('\n')
RECURSIVE CountNL(_)
CountNL(s) ==
    IF s = <<>> THEN 0
    ELSE (IF Head(s) = NL THEN 1 ELSE 0) + CountNL(Tail(s))

\* s[1..n]  (Python s[:n])
Prefix(s, n) == SubSeq(s, 1, n)

(***************************************************************************)
(* Lexical normalizer                                                      *)
(***************************************************************************)
\* Index of the first "*/" starting at or after i, 0 when there is none.
RECURSIVE BlockClose(_, _)
BlockClose(s, i) ==
    IF i + 1 > Len(s) THEN 0
    ELSE IF s[i] = "*" /\ s[i + 1] = "/" THEN i
    ELSE BlockClose(s, i + 1)

\* re.sub(r'/\*.*?\*/', '', content, flags=re.DOTALL), scanning from i
RECURSIVE StripBlock(_, _)
StripBlock(s, i) ==
    IF i > Len(s) THEN <<>>
    ELSE IF i + 1 <= Len(s) /\ s[i] = "/" /\ s[i + 1] = "*"
            /\ BlockClose(s, i + 2) # 0
         THEN StripBlock(s, BlockClose(s, i + 2) + 2)
         ELSE <<s[i]>> \o StripBlock(s, i + 1)

\* Index of the first newline at or after i, Len(s)+1 when there is none.
RECURSIVE LineEnd(_, _)
LineEnd(s, i) ==
    IF i > Len(s) THEN Len(s) + 1
    ELSE IF s[i] = NL THEN i
    ELSE LineEnd(s, i + 1)

\* re.sub(r'//[^\n]*', '', content), scanning from i
RECURSIVE StripLine(_, _)
StripLine(s, i) ==
    IF i > Len(s) THEN <<>>
    ELSE IF i + 1 <= Len(s) /\ s[i] = "/" /\ s[i + 1] = "/"
         THEN StripLine(s, LineEnd(s, i + 2))
         ELSE <<s[i]>> \o StripLine(s, i + 1)

strip_comments(content) == StripLine(StripBlock(content, 1), 1)

\* End of the string literal whose body starts at j: the index of the closing
\* quote of "(?:[^"\\]|\\.)*", 0 when the literal is not closed.  A backslash
\* takes the next character with it, unless that is a newline ('.' without
\* DOTALL) or the end of the text.
RECURSIVE StringClose(_, _)
StringClose(s, j) ==
    IF j > Len(s) THEN 0
    ELSE IF s[j] = QUOTE THEN j
    ELSE IF s[j] = BSLASH
         THEN (IF j + 1 <= Len(s) /\ s[j + 1] # NL
               THEN StringClose(s, j + 2) ELSE 0)
    ELSE StringClose(s, j + 1)

\* re.sub(r'"(?:[^"\\]|\\.)*"', '""', content), scanning from i
RECURSIVE StripStr(_, _)
StripStr(s, i) ==
    IF i > Len(s) THEN <<>>
    ELSE IF s[i] = QUOTE /\ StringClose(s, i + 1) # 0
         THEN <<QUOTE, QUOTE>> \o StripStr(s, StringClose(s, i + 1) + 1)
         ELSE <<s[i]>> \o StripStr(s, i + 1)

strip_strings(content) == StripStr(content, 1)

\* strip_strings(strip_comments(raw)): the clean text
Normalize(raw) == strip_strings(strip_comments(raw))

(***************************************************************************)
(* Scanning helpers shared by the pattern matchers                         *)
(***************************************************************************)
\* \s* : first index at or after i that holds no white space
RECURSIVE SkipSpace(_, _)
SkipSpace(s, i) ==
    IF i <= Len(s) /\ IsSpace(s[i]) THEN SkipSpace(s, i + 1) ELSE i

\* \w+ : first index at or after i that holds no identifier character
RECURSIVE WordEnd(_, _)
WordEnd(s, i) ==
    IF i <= Len(s) /\ IsWord(s[i]) THEN WordEnd(s, i + 1) ELSE i

\* [\w:<>*&]+ : first index at or after i that holds no type character
RECURSIVE TypeEnd(_, _)
TypeEnd(s, i) ==
    IF i <= Len(s) /\ IsTypeChar(s[i]) THEN TypeEnd(s, i + 1) ELSE i

\* The characters spelled by s[i..e-1], as one string (m.group(1)).
RECURSIVE Join(_, _, _)
Join(s, i, e) == IF i >= e THEN "" ELSE s[i] \o Join(s, i + 1, e)

\* '^' under re.MULTILINE
AtLineStart(s, p) == p = 1 \/ s[p - 1] = NL

Tok(s, i) == IF i >= 1 /\ i <= Len(s) THEN s[i] ELSE "<eot>"

SetMax(S) == CHOOSE x \in S : \A y \in S : y <= x
SetMin(S) == CHOOSE x \in S : \A y \in S : x <= y

NoMatch == [ok |-> FALSE]

(***************************************************************************)
(* The regular expressions                                                 *)
(***************************************************************************)
\* ((?:\w+::)?\w+) at q: the end of the optionally qualified name, q when no
\* identifier starts at q.
QualNameEnd(s, q) ==
    LET w == WordEnd(s, q) IN
    IF w > q /\ Tok(s, w) = ":" /\ Tok(s, w + 1) = ":" /\ WordEnd(s, w + 2) > w + 2
    THEN WordEnd(s, w + 2)
    ELSE w

\* Start of the last \w+ of the name s[q..e-1]: after the "::" if it has one
\* (name.split("::")[-1]).
BaseStart(s, q, e) ==
    LET w == WordEnd(s, q) IN IF w < e THEN w + 2 ELSE q

\* \([^;]*\)\s*(?:const\s*)?(?:override\s*)?\{ with s[r] = "(": [^;]* is
\* greedy, so the ")" taken is the last one before the first ";" that is
\* followed by the brace.  The index after the "{", 0 when there is no match.
\* (The texts hold no "const" and no "override": both groups match empty.)
DefTail(s, r) ==
    LET semi == SetMin({j \in (r + 1)..(Len(s) + 1) : j = Len(s) + 1 \/ s[j] = ";"})
        C == {c \in (r + 1)..(semi - 1) : s[c] = ")" /\ Tok(s, SkipSpace(s, c + 1)) = "{"}
    IN IF C = {} THEN 0 ELSE SkipSpace(s, SetMax(C) + 1) + 1

\* \([^)]*\)\s*(?:const\s*)?(?:override\s*)?(?:=\s*0\s*)?; with s[r] = "(":
\* the first ")" closes the list.  The index after the ";", 0 when no match.
\* (The texts hold no "const", "override" or "= 0".)
DeclTail(s, r) ==
    LET C == {c \in (r + 1)..Len(s) : s[c] = ")"} IN
    IF C = {} THEN 0
    ELSE LET t == SkipSpace(s, SetMin(C) + 1) IN
         IF Tok(s, t) = ";" THEN t + 1 ELSE 0

\* The part of a declaration pattern that follows the name, with r the index
\* after the name and its \s*: the index after the match, 0 when no match.
TailOf(kind, s, r) ==
    CASE kind = "func_def" -> (IF Tok(s, r) = "(" THEN DefTail(s, r) ELSE 0)
      [] kind = "func_decl" -> (IF Tok(s, r) = "(" THEN DeclTail(s, r) ELSE 0)
      [] kind = "extern" -> (IF Tok(s, r) = ";" THEN r + 1 ELSE 0)

\* (?:[\w:<>*&]+\s+)+ NAME \s* TAIL from q, with k type tokens taken so far.
\* A type token is a whole run of type characters, since white space must
\* follow it, and the name is what stands right before the tail, so the lazy
\* (+?) and the greedy (+) loop match the same text.  The optional leading
\* keywords of the patterns (static, inline, virtual, const, volatile) are
\* type tokens themselves, so they add nothing to what is matched.
RECURSIVE FuncFrom(_, _, _, _, _)
FuncFrom(kind, s, start, q, k) ==
    LET e == IF kind = "func_def" THEN QualNameEnd(s, q) ELSE WordEnd(s, q)
        tail == IF e > q THEN TailOf(kind, s, SkipSpace(s, e)) ELSE 0
        te == TypeEnd(s, q)
    IN IF k >= 1 /\ tail # 0
       THEN [ok |-> TRUE, start |-> start, end |-> tail,
             full |-> Join(s, q, e),
             name |-> Join(s, BaseStart(s, q, e), e),
             first |-> s[BaseStart(s, q, e)]]
       ELSE IF te > q /\ IsSpace(Tok(s, te))
            THEN FuncFrom(kind, s, start, SkipSpace(s, te), k + 1)
            ELSE NoMatch

\* RE_FUNC_DEF matched with its '^' at p
MatchFuncDef(s, p) == FuncFrom("func_def", s, p, SkipSpace(s, p), 0)

\* RE_FUNC_DECL matched with its '^' at p
MatchFuncDecl(s, p) == FuncFrom("func_decl", s, p, SkipSpace(s, p), 0)

\* extern_pattern = ^\s*extern\s+(?:volatile\s+)?(?:[\w:*&<>]+\s+)+(\w+)\s*;
\* matched with its '^' at p
MatchExtern(s, p) ==
    LET q == SkipSpace(s, p) IN
    IF Tok(s, q) = "extern" /\ IsSpace(Tok(s, q + 1))
    THEN FuncFrom("extern", s, p, SkipSpace(s, q + 1), 0)
    ELSE NoMatch

\* The optional keywords of RE_GLOBAL_VAR, in the order of the pattern.
GlobalVarKeywords == <<"extern", "volatile", "static", "constexpr", "constinit",
                       "const", "unsigned", "long">>

\* (?:[\w:<>*&]+)\s+(\w+)\s*(?:=|;|\[) at q
GlobalVarTail(s, start, q) ==
    LET te == TypeEnd(s, q)
        n == SkipSpace(s, te)
        e == WordEnd(s, n)
        t == SkipSpace(s, e)
    IN IF te > q /\ n > te /\ e > n /\ Tok(s, t) \in {"=", ";", "["}
       THEN [ok |-> TRUE, start |-> start, end |-> t + 1, full |-> Join(s, n, e),
             name |-> Join(s, n, e), first |-> s[n]]
       ELSE NoMatch

\* RE_GLOBAL_VAR from q with the keywords before the j-th already decided:
\* each optional keyword is taken if that leads to a match, else left out.
RECURSIVE GlobalVarFrom(_, _, _, _)
GlobalVarFrom(s, start, q, j) ==
    IF j > Len(GlobalVarKeywords) THEN GlobalVarTail(s, start, q)
    ELSE LET taken == IF Tok(s, q) = GlobalVarKeywords[j] /\ IsSpace(Tok(s, q + 1))
                      THEN GlobalVarFrom(s, start, SkipSpace(s, q + 1), j + 1)
                      ELSE NoMatch
         IN IF taken.ok THEN taken ELSE GlobalVarFrom(s, start, q, j + 1)

\* RE_GLOBAL_VAR matched with its '^' at p (the pattern has no leading \s*)
MatchGlobalVar(s, p) == GlobalVarFrom(s, p, p, 1)

\* RE_INCLUDE = ^\s*#include\s+[<"]([^>"]+)[>"] matched with its '^' at p;
\* toks is the captured path, token by token.
MatchInclude(s, p) ==
    LET q == SkipSpace(s, p)
        o == SkipSpace(s, q + 2)
        C == {c \in (o + 1)..Len(s) : s[c] \in {">", QUOTE}}
    IN IF Tok(s, q) = "#" /\ Tok(s, q + 1) = "include" /\ IsSpace(Tok(s, q + 2))
          /\ Tok(s, o) \in {"<", QUOTE} /\ C # {} /\ SetMin(C) > o + 1
       THEN [ok |-> TRUE, start |-> p, end |-> SetMin(C) + 1,
             full |-> Join(s, o + 1, SetMin(C)),
             name |-> Join(s, o + 1, SetMin(C)),
             toks |-> SubSeq(s, o + 1, SetMin(C) - 1)]
       ELSE NoMatch

\* RE_DEFINE = ^\s*#define\s+(\w+) matched with its '^' at p
MatchDefine(s, p) ==
    LET q == SkipSpace(s, p)
        n == SkipSpace(s, q + 2)
        e == WordEnd(s, n)
    IN IF Tok(s, q) = "#" /\ Tok(s, q + 1) = "define" /\ IsSpace(Tok(s, q + 2))
          /\ e > n
       THEN [ok |-> TRUE, start |-> p, end |-> e, full |-> Join(s, n, e),
             name |-> Join(s, n, e), first |-> s[n], last |-> s[e - 1]]
       ELSE NoMatch

\* RE_CLASS = ^\s*(?:class|struct)\s+(\w+)\s*[:{] matched with its '^' at p
MatchClass(s, p) ==
    LET q == SkipSpace(s, p)
        n == SkipSpace(s, q + 1)
        e == WordEnd(s, n)
        t == SkipSpace(s, e)
    IN IF Tok(s, q) \in {"class", "struct"} /\ IsSpace(Tok(s, q + 1))
          /\ e > n /\ Tok(s, t) \in {":", "{"}
       THEN [ok |-> TRUE, start |-> p, end |-> t + 1, full |-> Join(s, n, e),
             name |-> Join(s, n, e), first |-> s[n]]
       ELSE NoMatch

\* One of the patterns matched at p.
MatchAt(kind, s, p) ==
    CASE kind = "func_def" -> MatchFuncDef(s, p)
      [] kind = "func_decl" -> MatchFuncDecl(s, p)
      [] kind = "define" -> MatchDefine(s, p)
      [] kind = "class" -> MatchClass(s, p)
      [] kind = "global_var" -> MatchGlobalVar(s, p)
      [] kind = "include" -> MatchInclude(s, p)
      [] kind = "extern" -> MatchExtern(s, p)

\* pattern.finditer(s): the matches from left to right, none overlapping.
\* Every pattern starts with '^', so a match starts at the start of a line.
RECURSIVE FindIter(_, _, _)
FindIter(kind, s, p) ==
    IF p > Len(s) THEN <<>>
    ELSE IF AtLineStart(s, p) /\ MatchAt(kind, s, p).ok
         THEN <<MatchAt(kind, s, p)>> \o FindIter(kind, s, MatchAt(kind, s, p).end)
         ELSE FindIter(kind, s, p + 1)

\* The starts of the whole-word occurrences of name in s: the matches of
\* r'\b' + re.escape(name) + r'\b'.  The name is a run of identifier
\* characters, so an occurrence is a maximal run that spells it.
WordMatches(name, s) ==
    {i \in 1..Len(s) : /\ IsWord(s[i])
                       /\ ~IsWord(Tok(s, i - 1))
                       /\ Join(s, i, WordEnd(s, i)) = name}

\* re.search(r'(?<!extern\s)\bNAME\b\s*[=;({[]', s)
HasDefinition(name, s) ==
    \E i \in WordMatches(name, s) :
        /\ Tok(s, SkipSpace(s, WordEnd(s, i))) \in {"=", ";", "(", "{", "["}
        /\ ~(IsSpace(Tok(s, i - 1)) /\ Tok(s, i - 2) = "extern")

(***************************************************************************)
(* Configuration                                                           *)
(***************************************************************************)
SCAN_DIRS == {"src", "include"}
EXTENSIONS == {".h", ".cpp", ".ino", ".c"}
SKIP_DIRS == {".pio", ".git", "node_modules", "lib", "test", "data"}
FRAMEWORK_SYMBOLS == {"setup", "loop", "motorTask", "networkTask", "sendStatus",
                      "stopMovement", "setRgbLed", "IRAM_ATTR"}

(***************************************************************************)
(* Paths.  A path is the sequence of its components below the project root.*)
(***************************************************************************)
HeaderPath == <<"include", "core", "h1.h">>
H2Path == <<"include", "core", "h2.hpp">>
TopPath == <<"main.ino">>
CPath == <<"src", "d.c">>
SourcePath == <<"src", "m.cpp">>
NotesPath == <<"src", "notes.txt">>
TestPath == <<"src", "test", "t.cpp">>

\* Every path that may exist below the root, in the order sorted() puts them.
PathOrder == <<HeaderPath, H2Path, TopPath, CPath, SourcePath, NotesPath, TestPath>>

\* The components of the resolved root itself (root.resolve().parts): a
\* project below /home, and one below a directory named test.
HomeRoot == <<"/", "home", "proj">>
RootChoices == {HomeRoot, <<"/", "home", "test", "proj">>}

Range(q) == {q[i] : i \in 1..Len(q)}
Last(q) == q[Len(q)]

\* str(path): the components joined by "/"
RECURSIVE PathStr(_)
PathStr(parts) ==
    IF Len(parts) = 1 THEN parts[1]
    ELSE parts[1] \o "/" \o PathStr(Tail(parts))

\* Path.suffix of the file names in use
SuffixOf(name) ==
    CASE name \in {"h1.h"} -> ".h"
      [] name \in {"m.cpp", "t.cpp"} -> ".cpp"
      [] name \in {"notes.txt"} -> ".txt"
      [] name \in {"h2.hpp"} -> ".hpp"
      [] name \in {"main.ino"} -> ".ino"
      [] name \in {"d.c"} -> ".c"
      [] OTHER -> ""

\* Path.stem.upper().replace(".", "_") of the file names in use
StemUpper(name) ==
    CASE name = "h1.h" -> "H1"
      [] name = "m.cpp" -> "M"
      [] name = "t.cpp" -> "T"
      [] name = "notes.txt" -> "NOTES"
      [] name = "h2.hpp" -> "H2"
      [] name = "main.ino" -> "MAIN"
      [] name = "d.c" -> "D"

\* The words that end in "_H" (name.endswith("_H"))
EndsWith_H(tok) == tok \in {"H1_H", "CONFIGURATION_SETTINGS_HEADER_H"}

\* The subsequence of q whose elements satisfy membership in S.
RECURSIVE SelectIn(_, _)
SelectIn(q, S) ==
    IF q = <<>> THEN <<>>
    ELSE (IF Head(q) \in S THEN <<Head(q)>> ELSE <<>>) \o SelectIn(Tail(q), S)

\* collect_files(root) over the files fs holds (none when the root does not
\* exist: Path.exists() is false and glob() yields nothing).
collect_files(dir, exists, fs) ==
    LET present == IF exists THEN {q \in Range(PathOrder) : PathStr(q) \in DOMAIN fs}
                   ELSE {}
        scanned == {q \in present :
                        /\ Len(q) >= 2 /\ q[1] \in SCAN_DIRS
                        /\ SuffixOf(Last(q)) \in EXTENSIONS
                        /\ ~\E skip \in SKIP_DIRS : skip \in Range(dir \o q)}
        toplevel == {q \in present : Len(q) = 1 /\ SuffixOf(Last(q)) \in {".ino", ".cpp"}}
    IN SelectIn(PathOrder, scanned \cup toplevel)

(***************************************************************************)
(* Symbol extraction                                                       *)
(***************************************************************************)
\* clean[:m.start()].count('\n') + 1
LineNo(clean, m) == CountNL(Prefix(clean, m.start - 1)) + 1

Info(type, filepath, clean, m) ==
    [type |-> type, file |-> PathStr(filepath), line |-> LineNo(clean, m),
     full_name |-> m.full]

\* symbols[name] = info
Put(symbols, name, info) ==
    [n \in DOMAIN symbols \cup {name} |-> IF n = name THEN info ELSE symbols[n]]

\* d1.update(d2)
Update(d1, d2) ==
    [n \in DOMAIN d1 \cup DOMAIN d2 |-> IF n \in DOMAIN d2 THEN d2[n] ELSE d1[n]]

EmptyMap == [n \in {} |-> 0]

\* Recorded without the framework test on function names.
Recorded_NoFrameworkTest(type, filepath, m) ==
    CASE type = "function" -> m.first \notin UnderscoreToks
      [] type = "define" ->
            /\ m.name \notin FRAMEWORK_SYMBOLS /\ m.first \notin UnderscoreToks
            /\ ~(\/ m.name = StemUpper(Last(filepath)) \o "_H"
                 \/ (EndsWith_H(m.last) /\ Len(m.name) < 30))
      [] type = "class" -> m.first \notin UnderscoreToks

\* Recorded without the guard test on macro names.
Recorded_NoGuardTest(type, filepath, m) ==
    CASE type = "function" ->
            m.name \notin FRAMEWORK_SYMBOLS /\ m.first \notin UnderscoreToks
      [] type = "define" ->
            m.name \notin FRAMEWORK_SYMBOLS /\ m.first \notin UnderscoreToks
      [] type = "class" -> m.first \notin UnderscoreToks

\* Whether _extract_functions / _extract_defines / _extract_classes records
\* the match m found in filepath.
Recorded(type, filepath, m) ==
    CASE type = "function" ->
            m.name \notin FRAMEWORK_SYMBOLS /\ m.first \notin UnderscoreToks
      [] type = "define" ->
            /\ m.name \notin FRAMEWORK_SYMBOLS /\ m.first \notin UnderscoreToks
            /\ ~(\/ m.name = StemUpper(Last(filepath)) \o "_H"
                 \/ (EndsWith_H(m.last) /\ Len(m.name) < 30))
      [] type = "class" -> m.first \notin UnderscoreToks

\* The loop "for m in RE.finditer(clean)" over the matches ms, from the i-th.
RECURSIVE ExtractLoop(_, _, _, _, _, _)
ExtractLoop(type, filepath, clean, ms, i, symbols) ==
    IF i > Len(ms) THEN symbols
    ELSE ExtractLoop(type, filepath, clean, ms, i + 1,
                     IF Recorded(type, filepath, ms[i])
                     THEN Put(symbols, ms[i].name, Info(type, filepath, clean, ms[i]))
                     ELSE symbols)

_extract_functions(clean, filepath) ==
    ExtractLoop("function", filepath, clean, FindIter("func_def", clean, 1), 1, EmptyMap)

_extract_defines(clean, filepath) ==
    ExtractLoop("define", filepath, clean, FindIter("define", clean, 1), 1, EmptyMap)

_extract_classes(clean, filepath) ==
    ExtractLoop("class", filepath, clean, FindIter("class", clean, 1), 1, EmptyMap)

extract_symbols(filepath, content) ==
    LET clean == strip_strings(strip_comments(content)) IN
    Update(Update(_extract_functions(clean, filepath),
                  _extract_defines(clean, filepath)),
           _extract_classes(clean, filepath))

\* main, lines 298-301: keep the first definition of each name
MergeFirst(symbols, syms) ==
    [n \in DOMAIN symbols \cup DOMAIN syms |->
        IF n \in DOMAIN symbols THEN symbols[n] ELSE syms[n]]

(***************************************************************************)
(* Reference resolution                                                    *)
(***************************************************************************)
\* count_references taking the definition itself for a reference.
count_references_CountsDefinition(symbol_name, all_contents, defining_file) ==
    {fp \in DOMAIN all_contents : WordMatches(symbol_name, all_contents[fp]) # {}}

\* count_references counting the name inside longer identifiers as well.
count_references_PartialMatches(symbol_name, all_contents, defining_file) ==
    {fp \in DOMAIN all_contents :
        LET matches == {i \in 1..Len(all_contents[fp]) : all_contents[fp][i] = symbol_name} IN
        IF fp = defining_file THEN Cardinality(matches) > 1 ELSE matches # {}}

\* count_references: the files that reference symbol_name
count_references(symbol_name, all_contents, defining_file) ==
    {fp \in DOMAIN all_contents :
        LET matches == WordMatches(symbol_name, all_contents[fp]) IN
        IF fp = defining_file THEN Cardinality(matches) > 1 ELSE matches # {}}

\* JsRef that never looks into the JavaScript text.
JsRef_NeverLooks(name, js) == FALSE

\* bool(re.search(r'\b' + name + r'\b', js_contents)) if js_contents else False
JsRef(name, js) == IF js # <<>> THEN WordMatches(name, js) # {} ELSE FALSE

\* The unused list with the macros left out of it.
UnusedOf_WithoutMacros(symbols, contents_clean, js, types) ==
    {name \in DOMAIN symbols :
        /\ symbols[name].type \in types \ {"define"}
        /\ count_references(name, contents_clean, symbols[name].file) = {}
        /\ ~JsRef(name, js)}

\* main, lines 313-321 (types = all kinds) and 344-352 (types = {"define"})
UnusedOf(symbols, contents_clean, js, types) ==
    {name \in DOMAIN symbols :
        /\ symbols[name].type \in types
        /\ count_references(name, contents_clean, symbols[name].file) = {}
        /\ ~JsRef(name, js)}

(***************************************************************************)
(* Include audit                                                           *)
(***************************************************************************)
NOISE == {"if", "else", "for", "while", "return", "include",
          "define", "endif", "ifdef", "ifndef", "pragma"}

\* The words of the texts in the order sorted() puts them.
NameOrder == <<"CONFIGURATION_SETTINGS_HEADER_H", "H1_H", "_tmp", "a", "class", "const", "constexpr", "constinit",
               "core", "define", "extern", "fn", "foo", "h", "h1", "h2", "hpp", "include",
               "int", "long", "setup", "static", "struct", "unsigned", "volatile">>

\* {m.group(1) for m in RE.finditer(text)}, qualifier stripped
NamesOf(kind, text) ==
    LET ms == FindIter(kind, text, 1) IN {ms[i].name : i \in 1..Len(ms)}

\* analyze_header_includes, lines 219-236
HeaderSymbols(header_content) ==
    (NamesOf("func_decl", header_content) \cup NamesOf("func_def", header_content)
     \cup NamesOf("class", header_content) \cup NamesOf("define", header_content)
     \cup NamesOf("global_var", header_content)) \ NOISE

\* any(included.startswith(p) for p in ["core/", "hardware/", ...])
IsLocalInclude(toks) ==
    /\ Len(toks) >= 2
    /\ toks[1] \in {"core", "hardware", "communication", "movement"}
    /\ toks[2] = "/"

\* ResolveHeader taking every included path for include/core/h1.h.
ResolveHeader_AlwaysH1(included, fs) == "include/core/h1.h"

\* lines 208-213: the first of root/include/<included>, root/src/<included>
\* that exists, "" when neither does
ResolveHeader(included, fs) ==
    IF ("include" \o "/" \o included) \in DOMAIN fs THEN "include" \o "/" \o included
    ELSE IF ("src" \o "/" \o included) \in DOMAIN fs THEN "src" \o "/" \o included
    ELSE ""

\* UsedAny skipping the names of 3 characters as well.
UsedAny_SkipsThree(header_symbols, file_clean) ==
    \E sym \in header_symbols : Len(sym) > 3 /\ WordMatches(sym, file_clean) # {}

\* lines 239-246: whether any exported name of 3 characters or more occurs
\* in the including file's clean text
UsedAny(header_symbols, file_clean) ==
    \E sym \in header_symbols : Len(sym) >= 3 /\ WordMatches(sym, file_clean) # {}

\* sorted(header_symbols)[:5]
FirstFive(S) ==
    LET q == SelectIn(NameOrder, S) IN SubSeq(q, 1, IF Len(q) < 5 THEN Len(q) ELSE 5)

\* Unjustified without the test that the header exports a name.
Unjustified_EmptyHeaderToo(m, content, all_contents, fs) ==
    LET header_path == ResolveHeader(m.name, fs) IN
    /\ IsLocalInclude(m.toks)
    /\ header_path # ""
    /\ header_path \in DOMAIN all_contents
    /\ ~UsedAny(HeaderSymbols(strip_strings(strip_comments(all_contents[header_path]))),
                strip_strings(strip_comments(content)))

\* Whether the include directive m of the file with raw text content is
\* reported (lines 203-248).
Unjustified(m, content, all_contents, fs) ==
    LET header_path == ResolveHeader(m.name, fs) IN
    /\ IsLocalInclude(m.toks)
    /\ header_path # ""
    /\ header_path \in DOMAIN all_contents
    /\ LET header_symbols ==
               HeaderSymbols(strip_strings(strip_comments(all_contents[header_path])))
       IN /\ ~UsedAny(header_symbols, strip_strings(strip_comments(content)))
          /\ header_symbols # {}

\* The issues of one file: the loop of lines 201-256 over the matches ms.
RECURSIVE IncludeLoop(_, _, _, _, _, _)
IncludeLoop(filepath, clean, ms, i, all_contents, fs) ==
    IF i > Len(ms) THEN <<>>
    ELSE (IF Unjustified(ms[i], all_contents[PathStr(filepath)], all_contents, fs)
          THEN <<[file |-> PathStr(filepath),
                  line |-> LineNo(clean, ms[i]),
                  include |-> ms[i].name,
                  header_symbols |->
                      FirstFive(HeaderSymbols(strip_strings(strip_comments(
                          all_contents[ResolveHeader(ms[i].name, fs)]))))]>>
          ELSE <<>>)
         \o IncludeLoop(filepath, clean, ms, i + 1, all_contents, fs)

\* analyze_header_includes(all_files, all_contents, root), from the k-th file
RECURSIVE analyze_header_includes(_, _, _, _)
analyze_header_includes(all_files, k, all_contents, fs) ==
    IF k > Len(all_files) THEN <<>>
    ELSE LET clean == strip_comments(all_contents[PathStr(all_files[k])]) IN
         IncludeLoop(all_files[k], clean, FindIter("include", clean, 1), 1,
                     all_contents, fs)
         \o analyze_header_includes(all_files, k + 1, all_contents, fs)

(***************************************************************************)
(* Extern orphan check                                                     *)
(***************************************************************************)
\* lines 395-403: a definition in some .cpp or .ino file
DefinedInCpp(name, all_files, contents_clean) ==
    \E k \in 1..Len(all_files) :
        /\ SuffixOf(Last(all_files[k])) \in {".cpp", ".ino"}
        /\ HasDefinition(name, contents_clean[PathStr(all_files[k])])

\* lines 390-408 for one header: the loop over the extern declarations ms
RECURSIVE ExternLoop(_, _, _, _, _, _)
ExternLoop(filepath, content, ms, i, all_files, contents_clean) ==
    IF i > Len(ms) THEN <<>>
    ELSE (IF ms[i].name # "C" /\ ~DefinedInCpp(ms[i].name, all_files, contents_clean)
          THEN <<[file |-> PathStr(filepath), line |-> LineNo(content, ms[i]),
                  name |-> ms[i].name]>>
          ELSE <<>>)
         \o ExternLoop(filepath, content, ms, i + 1, all_files, contents_clean)

\* lines 386-408, from the k-th file
RECURSIVE ExternOrphans(_, _, _)
ExternOrphans(all_files, k, contents_clean) ==
    IF k > Len(all_files) THEN <<>>
    ELSE (IF SuffixOf(Last(all_files[k])) = ".h"
          THEN ExternLoop(all_files[k], contents_clean[PathStr(all_files[k])],
                          FindIter("extern", contents_clean[PathStr(all_files[k])], 1),
                          1, all_files, contents_clean)
          ELSE <<>>)
         \o ExternOrphans(all_files, k + 1, contents_clean)

(***************************************************************************)
(* The inputs: the texts the files may hold                                *)
(***************************************************************************)
\* Bounds of the model
MaxChunks == 2
MaxLen == 5
MaxCommentLen == 8

\* int n() {}
FDef(n) == <<"int", SP, n, "(", ")", SP, "{", "}">>
\* int n();
Decl(n) == <<"int", SP, n, "(", ")", ";">>
\* n();
Call(n) == <<n, "(", ")", ";">>
\* nfn(); the call of a function whose name only begins with n
LongerCall(n) == <<n, "fn", "(", ")", ";">>
\* #define n
Define(n) == <<"#", "define", SP, n>>
\* #include "core/h1.h"
IncludeH1 == <<"#", "include", SP, QUOTE, "core", "/", "h1", ".", "h", QUOTE>>
\* #include "core/h2.hpp"
IncludeH2 == <<"#", "include", SP, QUOTE, "core", "/", "h2", ".", "hpp", QUOTE>>
\* extern int n;
Extern(n) == <<"extern", SP, "int", SP, n, ";">>
\* int n;
Var(n) == <<"int", SP, n, ";">>
\* class n {};
ClassDef(n) == <<"class", SP, n, SP, "{", "}", ";">>
\* // n
LineComment(n) == <<"/", "/", SP, n>>
\* a block comment that spans two lines
BlockComment == <<"/", "*", NL, "*", "/">>

\* The chunks joined by newlines.
RECURSIVE JoinLines(_)
JoinLines(chunks) ==
    IF chunks = <<>> THEN <<>>
    ELSE IF Len(chunks) = 1 THEN chunks[1]
    ELSE chunks[1] \o <<NL>> \o JoinLines(Tail(chunks))

\* What src/m.cpp may hold: up to MaxChunks of these, one after the other.
SourceChunks == {<<>>, FDef("foo"), FDef("setup"), Call("foo"), Call("fn"),
                 Define("foo"), IncludeH1, LineComment("foo"), BlockComment,
                 Extern("foo"), IncludeH2, LongerCall("foo")}
SourceTexts == {JoinLines(c) : c \in BSeq(SourceChunks, MaxChunks)}

\* What include/core/h1.h may hold.
HeaderTexts == {<<>>,
                Decl("foo"),
                Decl("fn"),
                JoinLines(<<Decl("foo"), Decl("fn")>>),
                Extern("foo"),
                Define("foo"),
                FDef("fn"),
                Define("H1_H"),
                Define("CONFIGURATION_SETTINGS_HEADER_H"),
                Var("foo"),
                ClassDef("setup"),
                ClassDef("_tmp"),
                LongerCall("foo")}

\* What the files under data/js may hold, in the order rglob yields them;
\* NoDir when there is no data/js.
NoDir == "nodir"
JsChoices == {NoDir, <<>>, <<Call("foo")>>}

Absent == [readable |-> FALSE, text |-> <<"absent">>]
Unreadable == [readable |-> FALSE, text |-> <<>>]
Readable(t) == [readable |-> TRUE, text |-> t]
FileStates(texts) == {Readable(t) : t \in texts} \cup {Unreadable, Absent}

\* The files below an existing root: the header and the source file as
\* chosen, and three files that collect_files has to leave out.
DiskOf(h, m) ==
    LET all == [q \in {PathStr(HeaderPath), PathStr(SourcePath), PathStr(H2Path),
                       PathStr(NotesPath), PathStr(TestPath)} |->
                    CASE q = PathStr(HeaderPath) -> h
                      [] q = PathStr(SourcePath) -> m
                      [] OTHER -> Readable(Call("foo"))]
    IN [q \in {r \in DOMAIN all : all[r] # Absent} |-> all[q]]

\* A small project: of the header, the source file, the C file src/d.c and
\* the sketch main.ino at the top of the root, those that are there.
SmallDiskOf(h, m, c, t) ==
    LET all == [q \in {PathStr(HeaderPath), PathStr(SourcePath),
                       PathStr(CPath), PathStr(TopPath)} |->
                    CASE q = PathStr(HeaderPath) -> h
                      [] q = PathStr(SourcePath) -> m
                      [] q = PathStr(CPath) -> c
                      [] OTHER -> t]
    IN [q \in {r \in DOMAIN all : all[r] # Absent} |-> all[q]]

SmallDisks ==
    {SmallDiskOf(h, m, c, t) :
        h \in {Absent, Readable(Extern("foo"))},
        m \in {Absent, Readable(<<>>), Readable(Var("foo"))},
        c \in {Absent, Readable(Var("foo"))},
        t \in {Absent, Readable(Call("foo"))}}

(***************************************************************************)
(* main()                                                                  *)
(***************************************************************************)
NormIdle ==
    /\ ntext = <<>> /\ nstage = "off" /\ nout1 = <<>> /\ nout2 = <<>>
    /\ nclean = <<>> /\ nclean2 = <<>>

\* upload_html.py is not running.
NoArgs == [list_restore |-> FALSE, restore |-> "None", backup |-> FALSE,
           list |-> FALSE, delete |-> "None", sync |-> FALSE, file |-> <<>>,
           js |-> FALSE, all |-> FALSE, no_backup |-> FALSE, watch |-> FALSE]

UploadLocals ==
    /\ reqs = <<>> /\ queue = <<>> /\ ui = 1 /\ success = 0
    /\ remote_files = <<>> /\ list_status = "none" /\ to_delete = <<>>
    /\ backed_up = 0 /\ umode = "none" /\ last_mtime = 0 /\ wlog = <<>>
    /\ ustatus = -1

UploadIdle == upc = "off" /\ args = NoArgs /\ ufs = {} /\ UploadLocals

\* analyze() has not returned: no result yet.
NoResults ==
    [total |-> 0, sonarlint_count |-> 0, other_count |-> 0, other_issues |-> <<>>,
     by_rule |-> EmptyMap, rule_files |-> EmptyMap, rule_severities |-> EmptyMap,
     by_file |-> EmptyMap, file_rules |-> EmptyMap, by_severity |-> EmptyMap]

SonarIdle == spc = "off" /\ issues = <<>> /\ project_root = "None" /\ results = NoResults

MainLocals ==
    /\ files = <<>> /\ idx = 0
    /\ all_contents_raw = EmptyMap /\ all_contents_clean = EmptyMap
    /\ warnings = {} /\ js_contents = <<>> /\ all_symbols = EmptyMap
    /\ unused = {} /\ unused_defines = {} /\ include_issues = <<>>
    /\ orphans = <<>> /\ ret = -1 /\ exit_status = -1

Init ==
    /\ pc = "start"
    /\ root_exists \in BOOLEAN
    /\ IF root_exists
       THEN \/ /\ root = HomeRoot
               /\ disk \in {DiskOf(h, m) : h \in FileStates(HeaderTexts),
                                           m \in FileStates(SourceTexts)}
               /\ js_files \in JsChoices
            \/ /\ root \in RootChoices
               /\ disk \in SmallDisks
               /\ js_files = NoDir
       ELSE root = HomeRoot /\ disk = EmptyMap /\ js_files = NoDir
    /\ MainLocals
    /\ NormIdle
    /\ UploadIdle
    /\ SonarIdle

\* CollectFiles that ends the run when the root directory does not exist.
CollectFiles_RootChecked ==
    /\ pc = "start"
    /\ files' = collect_files(root, root_exists, disk)
    /\ idx' = 1
    /\ pc' = IF root_exists THEN "read" ELSE "crashed"
    /\ exit_status' = IF root_exists THEN exit_status ELSE 1
    /\ UNCHANGED <<root, root_exists, disk, js_files, all_contents_raw, all_contents_clean,
                   warnings, js_contents, all_symbols, unused, unused_defines,
                   include_issues, orphans, ret, normVars, upVars, sonVars>>

\* line 269: files = collect_files(root)
CollectFiles ==
    /\ pc = "start"
    /\ files' = collect_files(root, root_exists, disk)
    /\ idx' = 1
    /\ pc' = "read"
    /\ UNCHANGED <<root, root_exists, disk, js_files, all_contents_raw, all_contents_clean,
                   warnings, js_contents, all_symbols, unused, unused_defines,
                   include_issues, orphans, ret, exit_status, normVars, upVars, sonVars>>

\* lines 276-280: one turn of the loop, f.read_text succeeds
ReadFileOk ==
    /\ pc = "read" /\ idx <= Len(files)
    /\ disk[PathStr(files[idx])].readable
    /\ LET key == PathStr(files[idx])
           raw == disk[key].text
       IN /\ all_contents_raw' = Put(all_contents_raw, key, raw)
          /\ all_contents_clean' =
                 Put(all_contents_clean, key, strip_strings(strip_comments(raw)))
    /\ idx' = idx + 1
    /\ UNCHANGED <<pc, root, root_exists, disk, js_files, files, warnings, js_contents,
                   all_symbols, unused, unused_defines, include_issues, orphans,
                   ret, exit_status, normVars, upVars, sonVars>>

\* lines 276-282: one turn of the loop, f.read_text raises
ReadFileFail ==
    /\ pc = "read" /\ idx <= Len(files)
    /\ ~disk[PathStr(files[idx])].readable
    /\ warnings' = warnings \cup {PathStr(files[idx])}
    /\ idx' = idx + 1
    /\ UNCHANGED <<pc, root, root_exists, disk, js_files, files, all_contents_raw,
                   all_contents_clean, js_contents, all_symbols, unused,
                   unused_defines, include_issues, orphans, ret, exit_status,
                   normVars, upVars, sonVars>>

\* js_contents += jsf.read_text() + "\n" for each file
RECURSIVE JsConcat(_)
JsConcat(texts) ==
    IF texts = <<>> THEN <<>>
    ELSE Head(texts) \o <<NL>> \o JsConcat(Tail(texts))

\* lines 285-292: the JavaScript files, after the read loop has ended
ReadJs ==
    /\ pc = "read" /\ idx > Len(files)
    /\ js_contents' = IF js_files = NoDir THEN <<>> ELSE JsConcat(js_files)
    /\ pc' = "extract"
    /\ idx' = 1
    /\ UNCHANGED <<root, root_exists, disk, js_files, files, all_contents_raw,
                   all_contents_clean, warnings, all_symbols, unused,
                   unused_defines, include_issues, orphans, ret, exit_status,
                   normVars, upVars, sonVars>>

\* lines 296-301: one turn of the loop
ExtractFile ==
    /\ pc = "extract" /\ idx <= Len(files)
    /\ PathStr(files[idx]) \in DOMAIN all_contents_raw
    /\ all_symbols' = MergeFirst(all_symbols,
                          extract_symbols(files[idx], all_contents_raw[PathStr(files[idx])]))
    /\ idx' = idx + 1
    /\ UNCHANGED <<pc, root, root_exists, disk, js_files, files, all_contents_raw,
                   all_contents_clean, warnings, js_contents, unused,
                   unused_defines, include_issues, orphans, ret, exit_status,
                   normVars, upVars, sonVars>>

\* line 297: all_contents_raw[str(f)] raises KeyError for a file that could
\* not be read; nothing catches it, the interpreter ends with status 1.
ExtractKeyError ==
    /\ pc = "extract" /\ idx <= Len(files)
    /\ PathStr(files[idx]) \notin DOMAIN all_contents_raw
    /\ pc' = "crashed"
    /\ exit_status' = 1
    /\ UNCHANGED <<root, root_exists, disk, js_files, files, idx, all_contents_raw,
                   all_contents_clean, warnings, js_contents, all_symbols, unused,
                   unused_defines, include_issues, orphans, ret, normVars, upVars, sonVars>>

\* lines 313-321: section 1
UnusedSymbols ==
    /\ pc = "extract" /\ idx > Len(files)
    /\ unused' = UnusedOf(all_symbols, all_contents_clean, js_contents,
                          {"function", "define", "class"})
    /\ pc' = "defines"
    /\ UNCHANGED <<root, root_exists, disk, js_files, files, idx, all_contents_raw,
                   all_contents_clean, warnings, js_contents, all_symbols,
                   unused_defines, include_issues, orphans, ret, exit_status,
                   normVars, upVars, sonVars>>

\* lines 344-352: section 2
UnusedDefines ==
    /\ pc = "defines"
    /\ unused_defines' = UnusedOf(all_symbols, all_contents_clean, js_contents,
                                  {"define"})
    /\ pc' = "includes"
    /\ UNCHANGED <<root, root_exists, disk, js_files, files, idx, all_contents_raw,
                   all_contents_clean, warnings, js_contents, all_symbols, unused,
                   include_issues, orphans, ret, exit_status, normVars, upVars, sonVars>>

\* IncludeAudit emptying the raw corpus map as it goes.
IncludeAudit_ConsumesCorpus ==
    /\ pc = "includes"
    /\ include_issues' = analyze_header_includes(files, 1, all_contents_raw, disk)
    /\ all_contents_raw' = EmptyMap
    /\ pc' = "externs"
    /\ UNCHANGED <<root, root_exists, disk, js_files, files, idx,
                   all_contents_clean, warnings, js_contents, all_symbols, unused,
                   unused_defines, orphans, ret, exit_status, normVars, upVars, sonVars>>

\* line 369: section 3
IncludeAudit ==
    /\ pc = "includes"
    /\ include_issues' = analyze_header_includes(files, 1, all_contents_raw, disk)
    /\ pc' = "externs"
    /\ UNCHANGED <<root, root_exists, disk, js_files, files, idx, all_contents_raw,
                   all_contents_clean, warnings, js_contents, all_symbols, unused,
                   unused_defines, orphans, ret, exit_status, normVars, upVars, sonVars>>

\* lines 384-408: section 4
ExternCheck ==
    /\ pc = "externs"
    /\ orphans' = ExternOrphans(files, 1, all_contents_clean)
    /\ pc' = "summary"
    /\ UNCHANGED <<root, root_exists, disk, js_files, files, idx, all_contents_raw,
                   all_contents_clean, warnings, js_contents, all_symbols, unused,
                   unused_defines, include_issues, ret, exit_status, normVars, upVars, sonVars>>

\* lines 413-421: total_issues = len(unused); return 0 if it is 0 else 1
Summary ==
    /\ pc = "summary"
    /\ ret' = IF Cardinality(unused) = 0 THEN 0 ELSE 1
    /\ pc' = "returned"
    /\ UNCHANGED <<root, root_exists, disk, js_files, files, idx, all_contents_raw,
                   all_contents_clean, warnings, js_contents, all_symbols, unused,
                   unused_defines, include_issues, orphans, exit_status, normVars, upVars, sonVars>>

\* lines 424-425: the script calls main() and drops what it returns, so the
\* interpreter ends with status 0.
ProcessExit ==
    /\ pc = "returned"
    /\ exit_status' = 0
    /\ pc' = "exited"
    /\ UNCHANGED <<root, root_exists, disk, js_files, files, idx, all_contents_raw,
                   all_contents_clean, warnings, js_contents, all_symbols, unused,
                   unused_defines, include_issues, orphans, ret, normVars, upVars, sonVars>>

Next ==
    \/ CollectFiles
    \/ ReadFileOk
    \/ ReadFileFail
    \/ ReadJs
    \/ ExtractFile
    \/ ExtractKeyError
    \/ UnusedSymbols
    \/ UnusedDefines
    \/ IncludeAudit
    \/ ExternCheck
    \/ Summary
    \/ ProcessExit

Spec == Init /\ [][Next]_vars

(***************************************************************************)
(* The normalizer on its own: every short text                             *)
(***************************************************************************)
NormAlphabet == {"/", "*", NL, QUOTE, "a"}
\* '"' a '"': a name between two character literals that hold a quote
QuoteInCharLiteral == <<APOS, QUOTE, APOS, "a", APOS, QUOTE, APOS>>
NormInputs == BSeq(NormAlphabet, MaxLen) \cup BSeq({"/", "*"}, MaxCommentLen)
              \cup {QuoteInCharLiteral}

NormInit ==
    /\ pc = "off" /\ root = <<>> /\ root_exists = FALSE /\ disk = EmptyMap /\ js_files = NoDir
    /\ MainLocals
    /\ ntext \in NormInputs
    /\ nstage = "raw"
    /\ nout1 = <<>> /\ nout2 = <<>> /\ nclean = <<>> /\ nclean2 = <<>>
    /\ UploadIdle
    /\ SonarIdle

\* strip_comments(raw)
NStripComments ==
    /\ nstage = "raw"
    /\ nout1' = strip_comments(ntext)
    /\ nstage' = "stripped"
    /\ UNCHANGED <<ntext, nout2, nclean, nclean2, mainVars, upVars, sonVars>>

\* strip_comments applied to its own result
NStripAgain ==
    /\ nstage = "stripped"
    /\ nout2' = strip_comments(nout1)
    /\ nstage' = "restripped"
    /\ UNCHANGED <<ntext, nout1, nclean, nclean2, mainVars, upVars, sonVars>>

\* strip_strings(strip_comments(raw)), as main and extract_symbols compute it
NClean ==
    /\ nstage = "restripped"
    /\ nclean' = strip_strings(nout1)
    /\ nstage' = "clean"
    /\ UNCHANGED <<ntext, nout1, nout2, nclean2, mainVars, upVars, sonVars>>

\* the normalizer applied to the clean text
NCleanAgain ==
    /\ nstage = "clean"
    /\ nclean2' = strip_strings(strip_comments(nclean))
    /\ nstage' = "done"
    /\ UNCHANGED <<ntext, nout1, nout2, nclean, mainVars, upVars, sonVars>>

NormNext == NStripComments \/ NStripAgain \/ NClean \/ NCleanAgain

NormSpec == NormInit /\ [][NormNext]_vars

(***************************************************************************)
(* upload_html.py: configuration, local files, remote listing              *)
(***************************************************************************)
\* Bounds of the model of watch_file
MaxPolls == 4
MaxMtime == 2

BACKUP_FILES == <<"/stats.json", "/playlists.json", "/config.json", "/sequences.json">>
DATA_DIR == <<"data">>
JS_DIR == <<"data", "js">>
CSS_DIR == <<"data", "css">>
HISTORY_DIR == <<".history">>
HtmlNames == <<"index.html", "filesystem.html", "setup.html">>
web_extensions == {".html", ".js", ".css"}

\* The local files that may exist, each the sequence of its path components
\* below the working directory, in the order rglob and glob yield them.
LIndex == <<"data", "index.html">>
LOld == <<"data", "old.html">>
LApp == <<"data", "js", "app.js">>
LNotes == <<"data", "js", "notes.txt">>
LHist1 == <<".history", "stats_20250101_000000.json">>
LHist2 == <<".history", "stats_20250102_000000.json">>
LocalOrder == <<LIndex, LOld, LApp, LNotes, LHist1, LHist2>>
LocalFsChoices == {{}, {LIndex}, {LIndex, LApp}, {LIndex, LOld, LApp, LNotes},
                   {LIndex, LApp, LHist1, LHist2}}

\* Path.suffix of the local file names in use
FileSuffix(name) ==
    CASE name \in {"index.html", "old.html"} -> ".html"
      [] name \in {"app.js"} -> ".js"
      [] name \in {"notes.txt"} -> ".txt"
      [] OTHER -> ".json"

\* Every path of the device in use, in the order sorted() puts them.
RemoteOrder == <<"/config.json", "/index.html", "/js/app.js", "/js/old.js",
                 "/old.html", "/playlists.json", "/sequences.json", "/stats.json">>

\* EndsWith that takes every file of the device for a web asset.
EndsWith_AnyFile(f, ext) == TRUE

\* f.endswith(ext) for the device paths in use
EndsWith(f, ext) ==
    CASE f \in {"/index.html", "/old.html"} -> ext = ".html"
      [] f \in {"/js/app.js", "/js/old.js"} -> ext = ".js"
      [] OTHER -> FALSE

\* sorted(S) for a set S of device paths
Sorted(S) == SelectIn(RemoteOrder, S)

\* The path with a leading "/" (lines 74-75, 106-107, 275-276)
WithSlash(path) == IF path \in {"js/old.js"} THEN "/" \o path ELSE path

\* Whether the path p lies below the directory base.
IsUnder(p, base) == Len(p) > Len(base) /\ SubSeq(p, 1, Len(base)) = base

\* get_all_files_recursive(base_dir, extensions)
get_all_files_recursive(base_dir, extensions, fs) ==
    SelectIn(LocalOrder, {p \in fs : IsUnder(p, base_dir)
                                     /\ FileSuffix(Last(p)) \in extensions})

\* lines 64-70: the path on the device that upload_file derives from file_path
TargetOf(p) ==
    IF "data" \in Range(p)
    THEN LET data_idx == SetMin({i \in 1..Len(p) : p[i] = "data"})
         IN "/" \o PathStr(SubSeq(p, data_idx + 1, Len(p)))
    ELSE "/" \o Last(p)

\* get_local_files(): device path -> local file
get_local_files(fs) ==
    LET html == {p \in fs : \E k \in 1..Len(HtmlNames) : p = DATA_DIR \o <<HtmlNames[k]>>}
        js == Range(get_all_files_recursive(JS_DIR, {".js"}, fs))
        css == Range(get_all_files_recursive(CSS_DIR, {".css"}, fs))
        all == html \cup js \cup css
    IN [t \in {TargetOf(p) : p \in all} |-> CHOOSE p \in all : TargetOf(p) = t]

\* An item of the listing the device returns; path "" when the item has no
\* 'path' key.  The device names its paths with a leading "/".
RemoteFile(n, p) == [name |-> n, path |-> p, isDir |-> FALSE, children |-> <<>>]
RemoteDir(n, p, c) == [name |-> n, path |-> p, isDir |-> TRUE, children |-> c]

ListFailure == [ok |-> FALSE, files |-> <<>>]
\* an answer with a status other than 200, whose body is not looked at
ListRefused == [ok |-> FALSE, files |-> <<RemoteFile("old.html", "/old.html")>>]
ListOf(items) == [ok |-> TRUE, files |-> items]

\* What GET /api/fs/list may answer.
ListResponses ==
    {ListFailure,
     ListRefused,
     ListOf(<<>>),
     ListOf(<<RemoteFile("index.html", "/index.html"),
              RemoteFile("stats.json", "/stats.json"),
              RemoteFile("old.html", "/old.html"),
              RemoteDir("js", "/js", <<RemoteFile("app.js", "/js/app.js"),
                                       RemoteFile("old.js", "/js/old.js")>>)>>),
     ListOf(<<RemoteFile("index.html", ""),
              RemoteDir("js", "", <<RemoteFile("app.js", ""),
                                    RemoteFile("old.js", "")>>),
              RemoteFile("playlists.json", "")>>),
     ListOf(<<RemoteFile("index.html", ""), RemoteFile("config.json", "")>>)}

\* lines 301-310: extract_files(items, base_path)
RECURSIVE extract_files(_, _)
extract_files(items, base_path) ==
    IF items = <<>> THEN <<>>
    ELSE LET item == Head(items)
             item_path == IF item.path # "" THEN item.path
                          ELSE base_path \o "/" \o item.name
         IN (IF item.isDir THEN extract_files(item.children, item_path)
             ELSE <<item_path>>)
            \o extract_files(Tail(items), base_path)

\* list_remote_files reading the body of a failed answer as well.
list_remote_files_AnyStatus(resp) == extract_files(resp.files, "")

\* list_remote_files(): the paths of the answer, [] when the request fails
list_remote_files(resp) == IF resp.ok THEN extract_files(resp.files, "") ELSE <<>>

\* upload_file(file_path, esp32_ip, target_path): the request it issues, if
\* any, and what it returns; ok is whether the device answers 200.
upload_file(file_path, target_path, fs, ok) ==
    IF file_path \notin fs THEN [requests |-> <<>>, result |-> FALSE]
    ELSE [requests |-> <<[kind |-> "upload",
                          path |-> IF target_path # "" THEN WithSlash(target_path)
                                   ELSE TargetOf(file_path)]>>,
          result |-> ok]

\* delete_file(remote_path): the request it issues
delete_file(remote_path) == <<[kind |-> "delete", path |-> WithSlash(remote_path)]>>

\* download_file(remote_path): the request it issues
download_file(remote_path) == <<[kind |-> "get", path |-> WithSlash(remote_path)]>>

\* The kinds of backup and the timestamps in use, oldest first; the last
\* is datetime.now() of the run.
HistTypes == <<"stats", "playlists", "config", "sequences">>
Stamps == <<"20250101_000000", "20250102_000000", "20250103_000000">>
Now == Stamps[Len(Stamps)]

\* lines 142-145: the name of the backup of remote_file
BackupName(remote_file) ==
    LET k == CHOOSE i \in 1..Len(HistTypes) : remote_file = "/" \o HistTypes[i] \o ".json"
    IN HistTypes[k] \o "_" \o Now \o ".json"

\* f.stem.rsplit('_', 2): the type and the timestamp of a backup name
HistType(name) ==
    CHOOSE t \in Range(HistTypes) :
        \E k \in 1..Len(Stamps) : name = t \o "_" \o Stamps[k] \o ".json"
HistStamp(name) ==
    CHOOSE k \in 1..Len(Stamps) : name = HistType(name) \o "_" \o Stamps[k] \o ".json"

\* list_history_files(): type -> the most recent backup of the type
list_history_files(fs) ==
    LET hist == {p \in fs : IsUnder(p, HISTORY_DIR) /\ FileSuffix(Last(p)) = ".json"}
        types == {HistType(Last(p)) : p \in hist}
    IN [t \in types |->
           CHOOSE p \in hist :
               /\ HistType(Last(p)) = t
               /\ \A r \in hist : HistType(Last(r)) = t
                                    => HistStamp(Last(r)) <= HistStamp(Last(p))]

(***************************************************************************)
(* upload_html.py: main(), backup, sync, upload, watch                     *)
(***************************************************************************)
MainIdle ==
    /\ pc = "off" /\ root = <<>> /\ root_exists = FALSE /\ disk = EmptyMap /\ js_files = NoDir
    /\ MainLocals

\* The command lines: every combination of the options.
ArgChoices ==
    [list_restore : BOOLEAN, restore : {"None", "last", Last(LHist1)},
     backup : BOOLEAN, list : BOOLEAN, delete : {"None", "js/old.js"},
     sync : BOOLEAN, file : {<<>>, <<"js", "app.js">>}, js : BOOLEAN,
     all : BOOLEAN, no_backup : BOOLEAN, watch : BOOLEAN]

UploadInit ==
    /\ upc = "main"
    /\ args \in ArgChoices
    /\ ufs \in LocalFsChoices
    /\ UploadLocals
    /\ MainIdle
    /\ NormIdle
    /\ SonarIdle

\* The branch of main() that runs (lines 530-592).
Mode ==
    IF args.list_restore THEN "list_restore"
    ELSE IF args.restore # "None" THEN "restore"
    ELSE IF args.backup THEN "backup"
    ELSE IF args.list THEN "list"
    ELSE IF args.delete # "None" THEN "delete"
    ELSE IF args.sync THEN "sync"
    ELSE IF args.file # <<>> THEN "file"
    ELSE IF args.js THEN "js"
    ELSE IF args.all THEN "all"
    ELSE "default"

\* The uploads of the files fl, with the path upload_file derives.
Uploads(fl) == [i \in 1..Len(fl) |-> [file |-> fl[i], target |-> ""]]

\* lines 594-618 up to the first request: files_to_upload is fl
Collected(fl) ==
    /\ queue' = Uploads(fl)
    /\ ui' = 1 /\ success' = 0
    /\ IF args.watch
       THEN IF Len(fl) > 1
            THEN upc' = "exit" /\ ustatus' = 1 /\ umode' = umode
            ELSE upc' = "watch" /\ umode' = "watch" /\ ustatus' = ustatus
       ELSE upc' = "upload" /\ umode' = "plain" /\ ustatus' = ustatus

\* lines 531-533: --list-restore
UListRestore ==
    /\ upc = "main" /\ Mode = "list_restore"
    /\ upc' = "exit" /\ ustatus' = 0
    /\ UNCHANGED <<args, ufs, reqs, queue, ui, success, to_delete, backed_up, umode,
                   last_mtime, wlog, remote_files,
                   list_status, mainVars, normVars, sonVars>>

\* lines 536-543: --restore, up to the first request of restore_latest or
\* restore_file
URestore ==
    /\ upc = "main" /\ Mode = "restore"
    /\ IF args.restore = "last"
       THEN LET files_by_type == list_history_files(ufs)
                types == SelectIn(HistTypes, DOMAIN files_by_type)
            IN queue' = [i \in 1..Len(types) |->
                            [file |-> files_by_type[types[i]],
                             target |-> "/" \o types[i] \o ".json"]]
       ELSE LET file_path == HISTORY_DIR \o <<args.restore>>
            IN queue' = IF file_path \in ufs
                        THEN <<[file |-> file_path,
                                target |-> "/" \o HistType(args.restore)
                                               \o FileSuffix(args.restore)]>>
                        ELSE <<>>
    /\ upc' = "upload" /\ umode' = "restore" /\ ui' = 1 /\ success' = 0
    /\ UNCHANGED <<args, ufs, reqs, to_delete, backed_up, last_mtime, wlog, ustatus,
                   remote_files,
                   list_status, mainVars, normVars, sonVars>>

\* lines 546-548, 566-567, 584-585: backup_critical_files is entered
UBackupStart ==
    /\ upc = "main"
    /\ \/ Mode = "backup"
       \/ Mode \in {"sync", "all"} /\ ~args.no_backup
    /\ upc' = "backup" /\ umode' = Mode /\ ui' = 1 /\ backed_up' = 0
    /\ UNCHANGED <<args, ufs, reqs, queue, success, to_delete, last_mtime, wlog,
                   ustatus, remote_files,
                   list_status, mainVars, normVars, sonVars>>

\* lines 137-152: one turn of the loop over BACKUP_FILES; got is whether
\* the device answered with more than 2 bytes
UBackupGet ==
    /\ upc = "backup" /\ ui <= Len(BACKUP_FILES)
    /\ \E got \in BOOLEAN :
          /\ reqs' = reqs \o download_file(BACKUP_FILES[ui])
          /\ ufs' = IF got THEN ufs \cup {HISTORY_DIR \o <<BackupName(BACKUP_FILES[ui])>>}
                    ELSE ufs
          /\ backed_up' = backed_up + (IF got THEN 1 ELSE 0)
    /\ ui' = ui + 1
    /\ UNCHANGED <<upc, args, queue, success, to_delete, umode, last_mtime,
                   wlog, ustatus, remote_files,
                   list_status, mainVars, normVars, sonVars>>

\* lines 154-161 and the return to main()
UBackupDone ==
    /\ upc = "backup" /\ ui > Len(BACKUP_FILES)
    /\ IF umode = "backup" THEN upc' = "exit" /\ ustatus' = 0
       ELSE upc' = umode /\ ustatus' = ustatus
    /\ ui' = 1
    /\ UNCHANGED <<args, ufs, reqs, queue, success, to_delete, backed_up, umode,
                   last_mtime, wlog, remote_files,
                   list_status, mainVars, normVars, sonVars>>

\* USyncNoBackup that does not look at --no-backup.
USyncNoBackup_Unconditional ==
    /\ upc = "main" /\ Mode = "sync"
    /\ upc' = "sync" /\ umode' = "sync"
    /\ UNCHANGED <<args, ufs, reqs, queue, ui, success, to_delete, backed_up,
                   last_mtime, wlog, ustatus, remote_files,
                   list_status, mainVars, normVars, sonVars>>

\* lines 565-568 with --no-backup: sync_files is entered at once
USyncNoBackup ==
    /\ upc = "main" /\ Mode = "sync" /\ args.no_backup
    /\ upc' = "sync" /\ umode' = "sync"
    /\ UNCHANGED <<args, ufs, reqs, queue, ui, success, to_delete, backed_up,
                   last_mtime, wlog, ustatus, remote_files,
                   list_status, mainVars, normVars, sonVars>>

\* lines 551-557: --list
UListMode ==
    /\ upc = "main" /\ Mode = "list"
    /\ reqs' = Append(reqs, [kind |-> "list", path |-> "/"])
    /\ upc' = "exit" /\ ustatus' = 0
    /\ UNCHANGED <<args, ufs, queue, ui, success, to_delete, backed_up, umode,
                   last_mtime, wlog, remote_files,
                   list_status, mainVars, normVars, sonVars>>

\* lines 560-562: --delete
UDeleteMode ==
    /\ upc = "main" /\ Mode = "delete"
    /\ reqs' = reqs \o delete_file(args.delete)
    /\ upc' = "exit" /\ ustatus' = 0
    /\ UNCHANGED <<args, ufs, queue, ui, success, to_delete, backed_up, umode,
                   last_mtime, wlog, remote_files,
                   list_status, mainVars, normVars, sonVars>>

\* sync_files, lines 382-412: the local files, the listing of the device,
\* to_upload and to_delete
USyncList ==
    /\ upc = "sync"
    /\ \E resp \in ListResponses :
          LET local_files == get_local_files(ufs)
              local_paths == DOMAIN local_files
              listed == list_remote_files(resp)
              remote_paths == {f \in Range(listed) :
                                  \E ext \in web_extensions : EndsWith(f, ext)}
              to_upload == Sorted(local_paths)
          IN /\ queue' = [i \in 1..Len(to_upload) |->
                             [file |-> local_files[to_upload[i]], target |-> to_upload[i]]]
             /\ remote_files' = listed
             /\ list_status' = IF resp.ok THEN "ok" ELSE "failed"
             /\ to_delete' = Sorted(remote_paths \ local_paths)
    /\ reqs' = Append(reqs, [kind |-> "list", path |-> "/"])
    /\ upc' = "upload" /\ ui' = 1 /\ success' = 0
    /\ UNCHANGED <<args, ufs, backed_up, umode, last_mtime, wlog, ustatus,
                   mainVars, normVars, sonVars>>

\* lines 572-576: --file
UCollectFile ==
    /\ upc = "main" /\ Mode = "file"
    /\ Collected(<<IF args.file \notin ufs /\ (DATA_DIR \o args.file) \in ufs
                   THEN DATA_DIR \o args.file ELSE args.file>>)
    /\ UNCHANGED <<args, ufs, reqs, to_delete, backed_up, last_mtime, wlog,
                   remote_files,
                   list_status, mainVars, normVars, sonVars>>

\* lines 577-581: --js
UCollectJs ==
    /\ upc = "main" /\ Mode = "js"
    /\ LET files_to_upload == get_all_files_recursive(JS_DIR, {".js"}, ufs) IN
       IF files_to_upload = <<>>
       THEN /\ upc' = "exit" /\ ustatus' = 1
            /\ UNCHANGED <<queue, ui, success, umode>>
       ELSE Collected(files_to_upload)
    /\ UNCHANGED <<args, ufs, reqs, to_delete, backed_up, last_mtime, wlog,
                   remote_files,
                   list_status, mainVars, normVars, sonVars>>

\* lines 586-590: --all, after the backup if there is one
UCollectAll ==
    /\ \/ upc = "main" /\ Mode = "all" /\ args.no_backup
       \/ upc = "all"
    /\ LET local_files == get_local_files(ufs)
           files_to_upload == SelectIn(LocalOrder, {local_files[t] : t \in DOMAIN local_files})
       IN IF files_to_upload = <<>>
          THEN /\ upc' = "exit" /\ ustatus' = 1
               /\ UNCHANGED <<queue, ui, success, umode>>
          ELSE Collected(files_to_upload)
    /\ UNCHANGED <<args, ufs, reqs, to_delete, backed_up, last_mtime, wlog,
                   remote_files,
                   list_status, mainVars, normVars, sonVars>>

\* line 592: no option names a file
UCollectDefault ==
    /\ upc = "main" /\ Mode = "default"
    /\ Collected(<<DATA_DIR \o <<"index.html">>>>)
    /\ UNCHANGED <<args, ufs, reqs, to_delete, backed_up, last_mtime, wlog,
                   remote_files,
                   list_status, mainVars, normVars, sonVars>>

\* one call of upload_file in the loops of lines 413-416, 608-610, 234-240
\* and in restore_file
UUpload ==
    /\ upc = "upload" /\ ui <= Len(queue)
    /\ \E ok \in BOOLEAN :
          LET r == upload_file(queue[ui].file, queue[ui].target, ufs, ok) IN
          /\ reqs' = reqs \o r.requests
          /\ success' = success + (IF r.result THEN 1 ELSE 0)
    /\ ui' = ui + 1
    /\ UNCHANGED <<upc, args, ufs, queue, to_delete, backed_up, umode, last_mtime,
                   wlog, ustatus, remote_files,
                   list_status, mainVars, normVars, sonVars>>

\* the end of the upload loop: lines 417-421 in sync_files, 612-618 in
\* main(), the return of the restore functions
UUploadDone ==
    /\ upc = "upload" /\ ui > Len(queue)
    /\ IF umode = "sync" THEN upc' = "delete" /\ ustatus' = ustatus
       ELSE IF umode = "plain"
            THEN upc' = "exit" /\ ustatus' = (IF success = Len(queue) THEN 0 ELSE 1)
            ELSE upc' = "exit" /\ ustatus' = 0
    /\ ui' = 1
    /\ UNCHANGED <<args, ufs, reqs, queue, success, to_delete, backed_up, umode,
                   last_mtime, wlog, remote_files,
                   list_status, mainVars, normVars, sonVars>>

\* lines 421-424: one call of delete_file (main() passes delete_orphans=True)
UDelete ==
    /\ upc = "delete" /\ ui <= Len(to_delete)
    /\ reqs' = reqs \o delete_file(to_delete[ui])
    /\ ui' = ui + 1
    /\ UNCHANGED <<upc, args, ufs, queue, success, to_delete, backed_up, umode,
                   last_mtime, wlog, ustatus, remote_files,
                   list_status, mainVars, normVars, sonVars>>

\* line 432 and the return of main()
USyncDone ==
    /\ upc = "delete" /\ ui > Len(to_delete)
    /\ upc' = "exit" /\ ustatus' = 0
    /\ UNCHANGED <<args, ufs, reqs, queue, ui, success, to_delete, backed_up, umode,
                   last_mtime, wlog, remote_files,
                   list_status, mainVars, normVars, sonVars>>

\* os.path.getmtime raising FileNotFoundError
Missing == -1

\* watch_file, lines 449-463: one turn of the loop; current is what
\* os.path.getmtime finds
UPoll ==
    /\ upc = "watch" /\ Len(wlog) < MaxPolls
    /\ \E current \in {Missing} \cup 1..MaxMtime :
          IF current = Missing
          THEN /\ last_mtime' = 0
               /\ wlog' = Append(wlog, [mtime |-> Missing, uploaded |-> FALSE])
               /\ reqs' = reqs
          ELSE LET changed == current # last_mtime /\ last_mtime # 0 IN
               /\ reqs' = IF changed
                          THEN reqs \o upload_file(queue[1].file, "",
                                                   ufs \cup {queue[1].file}, TRUE).requests
                          ELSE reqs
               /\ last_mtime' = current
               /\ wlog' = Append(wlog, [mtime |-> current, uploaded |-> changed])
    /\ UNCHANGED <<upc, args, ufs, queue, ui, success, to_delete, backed_up, umode,
                   ustatus, remote_files,
                   list_status, mainVars, normVars, sonVars>>

\* lines 465-466: KeyboardInterrupt
UStopWatch ==
    /\ upc = "watch"
    /\ upc' = "exit" /\ ustatus' = 0
    /\ UNCHANGED <<args, ufs, reqs, queue, ui, success, to_delete, backed_up, umode,
                   last_mtime, wlog, remote_files,
                   list_status, mainVars, normVars, sonVars>>

UploadNext ==
    \/ UListRestore \/ URestore \/ UBackupStart \/ UBackupGet \/ UBackupDone
    \/ USyncNoBackup \/ UListMode \/ UDeleteMode \/ USyncList
    \/ UCollectFile \/ UCollectJs \/ UCollectAll \/ UCollectDefault
    \/ UUpload \/ UUploadDone \/ UDelete \/ USyncDone
    \/ UPoll \/ UStopWatch

UploadSpec == UploadInit /\ [][UploadNext]_vars

(***************************************************************************)
(* analyze_sonarqube.py: analyze(issues, project_root)                     *)
(*                                                                         *)
(* An issue is an object of the exported report; a key the object does not *)
(* have is NoField (NoSeverity for "severity").  Paths are Windows paths,  *)
(* the platform the script is written for ("/c:/" resources).              *)
(***************************************************************************)
MaxIssues == 3

NoField == "<absent>"
NoSeverity == -1

\* SEVERITY_MAP
SEVERITY_MAP == (8 :> "Error") @@ (4 :> "Warning") @@ (2 :> "Info") @@ (1 :> "Hint")

\* The resources of the issues: a file below the project root, a file
\* elsewhere.
InProject == "/c:/proj/src/a.cpp"
OutOfProject == "/c:/lib/a.cpp"
ProjectRoot == "C:\\proj"

\* The issues a report may hold.
IssueChoices ==
    {[owner |-> "sonarlint", code |-> "cpp:S125", resource |-> InProject, severity |-> 8],
     [owner |-> "sonarlint", code |-> "S125", resource |-> OutOfProject, severity |-> 4],
     [owner |-> "sonarlint", code |-> NoField, resource |-> NoField, severity |-> NoSeverity],
     [owner |-> "sonarlint", code |-> "cpp:S134", resource |-> InProject, severity |-> 3],
     [owner |-> "cpptools", code |-> "cpp:S125", resource |-> InProject, severity |-> 8],
     [owner |-> NoField, code |-> "cpp:S134", resource |-> OutOfProject, severity |-> 4]}

\* issue.get(key, default)
Get(issue, key, default) ==
    IF issue[key] = (IF key = "severity" THEN NoSeverity ELSE NoField) THEN default
    ELSE issue[key]

\* normalize_path(resource, project_root): the path relative to the project
\* root when there is one and the file lies below it, the file name
\* otherwise
normalize_path(resource, proot) ==
    CASE resource = InProject -> IF proot = ProjectRoot THEN "src\\a.cpp" ELSE "a.cpp"
      [] resource = OutOfProject -> "a.cpp"
      [] OTHER -> ""

\* extract_rule(code): "unknown" for no code, else what follows the last ":"
extract_rule(code) ==
    CASE code = "" -> "unknown"
      [] code \in {"cpp:S125", "S125"} -> "S125"
      [] code = "cpp:S134" -> "S134"

\* SEVERITY_MAP.get(issue.get("severity", 0), f"Unknown({issue.get('severity')})")
SeverityName(issue) ==
    IF Get(issue, "severity", 0) \in DOMAIN SEVERITY_MAP
    THEN SEVERITY_MAP[Get(issue, "severity", 0)]
    ELSE IF issue.severity = NoSeverity THEN "Unknown(None)"
    ELSE "Unknown(" \o ToString(issue.severity) \o ")"

RuleOf(issue) == extract_rule(Get(issue, "code", ""))
FileOf(issue, proot) == normalize_path(Get(issue, "resource", ""), proot)

\* IsSonarlint taking every issue for a SonarLint issue.
IsSonarlint_Everyone(issue) == TRUE

\* i.get("owner") == "sonarlint"
IsSonarlint(issue) == issue.owner = "sonarlint"
IsOther(issue) == ~IsSonarlint(issue)

\* counter[key] += 1
Inc(counter, key) ==
    Put(counter, key, (IF key \in DOMAIN counter THEN counter[key] ELSE 0) + 1)

\* counter[outer][inner] += 1 on a defaultdict of Counters
Inc2(counters, outer, inner) ==
    Put(counters, outer,
        Inc(IF outer \in DOMAIN counters THEN counters[outer] ELSE EmptyMap, inner))

\* lines 134-139: the loop that fills rule_counter, rule_files and
\* rule_severities
RECURSIVE RuleLoop(_, _, _)
RuleLoop(acc, q, proot) ==
    IF q = <<>> THEN acc
    ELSE LET rule == RuleOf(Head(q))
             filepath == FileOf(Head(q), proot)
         IN RuleLoop([rule_counter |-> Inc(acc.rule_counter, rule),
                      rule_files |-> Inc2(acc.rule_files, rule, filepath),
                      rule_severities |->
                          Put(acc.rule_severities, rule, Get(Head(q), "severity", 0))],
                     Tail(q), proot)

\* lines 145-149: the loop that fills file_counter and file_rules
RECURSIVE FileLoop(_, _, _)
FileLoop(acc, q, proot) ==
    IF q = <<>> THEN acc
    ELSE LET filepath == FileOf(Head(q), proot)
             rule == RuleOf(Head(q))
         IN FileLoop([file_counter |-> Inc(acc.file_counter, filepath),
                      file_rules |-> Inc2(acc.file_rules, filepath, rule)],
                     Tail(q), proot)

\* lines 152-155: the loop that fills severity_counter
RECURSIVE SeverityLoop(_, _)
SeverityLoop(severity_counter, q) ==
    IF q = <<>> THEN severity_counter
    ELSE SeverityLoop(Inc(severity_counter, SeverityName(Head(q))), Tail(q))

\* analyze(issues, project_root)
analyze(all, proot) ==
    LET sonarlint == SelectSeq(all, IsSonarlint)
        other == SelectSeq(all, IsOther)
        rules == RuleLoop([rule_counter |-> EmptyMap, rule_files |-> EmptyMap,
                           rule_severities |-> EmptyMap], sonarlint, proot)
        byfile == FileLoop([file_counter |-> EmptyMap, file_rules |-> EmptyMap],
                           sonarlint, proot)
    IN [total |-> Len(all),
        sonarlint_count |-> Len(sonarlint),
        other_count |-> Len(other),
        other_issues |-> other,
        by_rule |-> rules.rule_counter,
        rule_files |-> rules.rule_files,
        rule_severities |-> rules.rule_severities,
        by_file |-> byfile.file_counter,
        file_rules |-> byfile.file_rules,
        by_severity |-> SeverityLoop(EmptyMap, sonarlint)]

SonarInit ==
    /\ spc = "loaded"
    /\ issues \in BSeq(IssueChoices, MaxIssues)
    /\ project_root \in {"None", ProjectRoot}
    /\ results = NoResults
    /\ MainIdle /\ NormIdle /\ UploadIdle

\* results = analyze(issues, project_root)
Analyze ==
    /\ spc = "loaded"
    /\ results' = analyze(issues, project_root)
    /\ spc' = "analyzed"
    /\ UNCHANGED <<issues, project_root, mainVars, normVars, upVars>>

SonarNext == Analyze

SonarSpec == SonarInit /\ [][SonarNext]_vars

(***************************************************************************)
(* Properties                                                              *)
(***************************************************************************)
\* The keys of the collected files.
Corpus == {PathStr(files[i]) : i \in 1..Len(files)}

\* The clean text of the file fp, from what the disk holds.
CleanOf(fp) == strip_strings(strip_comments(disk[fp].text))

\* The number of places where text holds name with no identifier character
\* on either side.
Occ(name, text) ==
    Cardinality({i \in 1..Len(text) :
                    /\ text[i] = name
                    /\ ~IsWord(Tok(text, i - 1))
                    /\ ~IsWord(Tok(text, i + 1))})

\* Whether the auxiliary corpus (the JavaScript sources) holds name.
AuxOcc(name) ==
    /\ js_files # NoDir
    /\ \E k \in 1..Len(js_files) : Occ(name, js_files[k]) > 0

\* No occurrence in another file, fewer than two in its own, none in the
\* auxiliary corpus.
Unreferenced(name) ==
    /\ \A fp \in Corpus \ {all_symbols[name].file} : Occ(name, CleanOf(fp)) = 0
    /\ Occ(name, CleanOf(all_symbols[name].file)) < 2
    /\ ~AuxOcc(name)

AfterUnused == pc \in {"defines", "includes", "externs", "summary", "returned", "exited"}
AfterAudit == pc \in {"externs", "summary", "returned", "exited"}
Returned == pc \in {"returned", "exited"}

\* C1: a symbol of the symbol table is in the unused list if and only if its
\* name has no whole-word occurrence in the clean text of another file, fewer
\* than two in the clean text of its declaring file, and none in the
\* auxiliary corpus.
C1_UnusedIffUnreferenced ==
    AfterUnused =>
        \A name \in DOMAIN all_symbols : name \in unused <=> Unreferenced(name)

\* C1 witness: a run has ended in which a symbol that occurs once in its own
\* file is kept out of the unused list by one occurrence in another file.
C1_Witness ==
    /\ pc = "exited"
    /\ \E name \in DOMAIN all_symbols :
          /\ name \notin unused
          /\ Occ(name, CleanOf(all_symbols[name].file)) = 1
          /\ ~AuxOcc(name)
          /\ \E fp \in Corpus \ {all_symbols[name].file} : Occ(name, CleanOf(fp)) = 1

\* C2: the exit status of the process is non-zero when the run produced
\* unused-symbol findings and zero when it produced none.
C2_ExitStatusTellsFindings ==
    pc = "exited" => (exit_status = 0 <=> unused = {})

\* C3 as stated: macros do not count for the status, main returns zero
\* unless a symbol that is not a macro is unreferenced.
C3_MacrosDoNotCount ==
    Returned =>
        (ret = 0 <=> \A name \in DOMAIN all_symbols :
                        all_symbols[name].type # "define" => ~Unreferenced(name))

\* C3 amended: the status main returns depends on the unreferenced symbols
\* alone, macros among them: it is 0 when no recorded symbol of any kind is
\* unreferenced and 1 otherwise, whatever the include audit and the extern
\* check have found.
C3_StatusCountsSymbolsOnly ==
    Returned =>
        /\ ret \in {0, 1}
        /\ ret = 0 <=> \A name \in DOMAIN all_symbols : ~Unreferenced(name)
        /\ Cardinality(unused) =
               Cardinality({name \in DOMAIN all_symbols : Unreferenced(name)})

\* C3 witness: a run with an unjustified include and an orphan extern has
\* returned 0.
C3_Witness ==
    /\ pc = "exited" /\ ret = 0
    /\ include_issues # <<>>
    /\ orphans # <<>>

\* C4: a file that could not be read never aborts the run.
C4_ReadFailureNeverAborts ==
    ~(warnings # {} /\ pc = "crashed")

\* C5 as stated: with no root directory the run does not complete as a
\* normal run.
C5_MissingRootFails ==
    ~root_exists => ~Returned

\* C5 amended: with no root directory the run collects no file, never
\* fails, and completes with no symbol, no finding and the return value 0.
C5_MissingRootCompletesEmpty ==
    ~root_exists =>
        /\ pc # "crashed"
        /\ files = <<>>
        /\ Returned =>
              /\ DOMAIN all_symbols = {} /\ unused = {} /\ unused_defines = {}
              /\ include_issues = <<>> /\ orphans = <<>>
              /\ ret = 0

\* C5 witness: a run without a root directory has ended.
C5_Witness ==
    ~root_exists /\ pc = "exited" /\ exit_status = 0 /\ ret = 0

\* C6: no symbol recorded with kind function bears a framework-reserved
\* name, so none is ever in the unused list, however often it is referenced.
C6_ReservedFunctionNeverReported ==
    /\ \A name \in DOMAIN all_symbols :
          all_symbols[name].type = "function" => name \notin FRAMEWORK_SYMBOLS
    /\ \A name \in unused :
          all_symbols[name].type = "function" => name \notin FRAMEWORK_SYMBOLS

\* C6 witness: a run has ended whose source file defines the reserved
\* function setup, referenced nowhere, with nothing reported.
C6_Witness ==
    /\ pc = "exited"
    /\ PathStr(SourcePath) \in Corpus
    /\ disk[PathStr(SourcePath)].text = FDef("setup")
    /\ \A fp \in Corpus \ {PathStr(SourcePath)} : Occ("setup", CleanOf(fp)) = 0
    /\ ~AuxOcc("setup")
    /\ unused = {}

\* C7: stripping comments twice gives what stripping once gives, and the
\* normalizer leaves a clean text unchanged.
C7_StripIdempotent ==
    /\ nstage \in {"restripped", "clean", "done"} => nout2 = nout1
    /\ nstage = "done" => nclean2 = nclean

\* C8: the clean text has as many newlines as the raw text.
C8_NewlinesKept ==
    nstage \in {"clean", "done"} => CountNL(nclean) = CountNL(ntext)

\* The names the header of the issue exports.
ExportedBy(issue) == HeaderSymbols(CleanOf(ResolveHeader(issue.include, disk)))

\* C9 as stated: an include is never reported when the including file's
\* clean text holds a whole-word occurrence of a name the header exports.
C9_AnyExportedNameJustifies ==
    AfterAudit =>
        \A k \in 1..Len(include_issues) :
            \A sym \in ExportedBy(include_issues[k]) :
                Occ(sym, CleanOf(include_issues[k].file)) = 0

\* C9 amended: an include is never reported when the including file's clean
\* text holds a whole-word occurrence of an exported name of at least 3
\* characters, however many other exported names are unused.
C9_LongExportedNameJustifies ==
    AfterAudit =>
        \A k \in 1..Len(include_issues) :
            \A sym \in ExportedBy(include_issues[k]) :
                Len(sym) >= 3 => Occ(sym, CleanOf(include_issues[k].file)) = 0

\* C9 witness: the header exports foo and fn, the source file includes it
\* and uses foo alone, and the run has ended with no include reported.
C9_Witness ==
    /\ pc = "exited"
    /\ PathStr(HeaderPath) \in Corpus /\ PathStr(SourcePath) \in Corpus
    /\ disk[PathStr(HeaderPath)].text = JoinLines(<<Decl("foo"), Decl("fn")>>)
    /\ disk[PathStr(SourcePath)].text = JoinLines(<<IncludeH1, Call("foo")>>)
    /\ include_issues = <<>>

\* Where the raw text holds the definition "int n() {}".
DefPositions(raw, n) ==
    {i \in 1..Len(raw) :
        i + Len(FDef(n)) - 1 <= Len(raw) /\ SubSeq(raw, i, i + Len(FDef(n)) - 1) = FDef(n)}

\* The 1-based line of the raw text on which position i stands.
RawLine(raw, i) == CountNL(Prefix(raw, i - 1)) + 1

\* The occurrences of name in the raw texts of the corpus.
RawOccs(name) ==
    UNION {{<<fp, i>> : i \in {j \in 1..Len(disk[fp].text) : disk[fp].text[j] = name}} :
              fp \in Corpus}

\* C10: a function defined once in the source file, whose name occurs
\* nowhere else in the corpus or the auxiliary text, is reported once, as a
\* function, at the line of the file on which its definition stands.
C10_ReportedAtDefinitionLine ==
    (/\ AfterUnused
     /\ PathStr(SourcePath) \in Corpus
     /\ Cardinality(DefPositions(disk[PathStr(SourcePath)].text, "foo")) = 1
     /\ Cardinality(RawOccs("foo")) = 1
     /\ ~AuxOcc("foo"))
    => /\ "foo" \in unused
       /\ all_symbols["foo"].type = "function"
       /\ \A i \in DefPositions(disk[PathStr(SourcePath)].text, "foo") :
              all_symbols["foo"].line = RawLine(disk[PathStr(SourcePath)].text, i)

\* Whether the macro name is the guard name of the file fp (the upper-cased
\* stem followed by _H), or ends in _H with fewer than 30 characters.
GuardLike(name, fp) ==
    \/ \E q \in Range(PathOrder) : PathStr(q) = fp /\ name = StemUpper(Last(q)) \o "_H"
    \/ (EndsWith_H(name) /\ Len(name) < 30)

\* C11: no macro record of the symbol table bears the guard name of its
\* file or a name that ends in _H and has fewer than 30 characters, and no
\* such macro is in the unused list or the unused macro list.
C11_GuardMacroNeverRecorded ==
    /\ \A name \in DOMAIN all_symbols :
          all_symbols[name].type = "define" => ~GuardLike(name, all_symbols[name].file)
    /\ \A name \in unused \cup unused_defines :
          all_symbols[name].type = "define" => ~GuardLike(name, all_symbols[name].file)

\* C11 witness: the header holds "#define H1_H" alone, nothing refers to
\* H1_H, and the run has ended with no record and no finding for it.
C11_Witness ==
    /\ pc = "exited"
    /\ PathStr(HeaderPath) \in Corpus
    /\ disk[PathStr(HeaderPath)].text = Define("H1_H")
    /\ \A fp \in Corpus \ {PathStr(HeaderPath)} : Occ("H1_H", CleanOf(fp)) = 0
    /\ ~AuxOcc("H1_H")
    /\ "H1_H" \notin DOMAIN all_symbols
    /\ unused = {} /\ unused_defines = {}

AfterExterns == pc \in {"summary", "returned", "exited"}

\* Whether position i of text lies within an extern declaration.
InExternDecl(text, i) ==
    \E k \in 1..Len(FindIter("extern", text, 1)) :
        /\ FindIter("extern", text, 1)[k].start <= i
        /\ i <= FindIter("extern", text, 1)[k].end

\* Whether text holds name as a whole word followed by =, ;, (, { or [,
\* outside every extern declaration.
GenuineDefinition(name, text) ==
    \E i \in 1..Len(text) :
        /\ text[i] = name
        /\ ~IsWord(Tok(text, i - 1)) /\ ~IsWord(Tok(text, i + 1))
        /\ Tok(text, SkipSpace(text, i + 1)) \in {"=", ";", "(", "{", "["}
        /\ ~InExternDecl(text, i)

\* The implementation files of the corpus.
ImplFiles == {PathStr(q) : q \in {r \in Range(files) : SuffixOf(Last(r)) \in {".cpp", ".ino"}}}

\* C12: an extern declaration of a header is reported as an orphan if and
\* only if no implementation file holds a defining occurrence of the name
\* outside an extern declaration.
C12_OrphanIffNoDefinition ==
    AfterExterns =>
        \A q \in {r \in Range(files) : SuffixOf(Last(r)) = ".h"} :
            \A k \in 1..Len(FindIter("extern", CleanOf(PathStr(q)), 1)) :
                LET m == FindIter("extern", CleanOf(PathStr(q)), 1)[k] IN
                (\E j \in 1..Len(orphans) :
                    orphans[j].file = PathStr(q) /\ orphans[j].name = m.name)
                <=> ~\E fp \in ImplFiles : GenuineDefinition(m.name, CleanOf(fp))

\* No occurrence in another file of the corpus and fewer than two in its own.
SourceUnreferenced(name) ==
    /\ \A fp \in Corpus \ {all_symbols[name].file} : Occ(name, CleanOf(fp)) = 0
    /\ Occ(name, CleanOf(all_symbols[name].file)) < 2

\* Whether there is no JavaScript directory, or no text in it.
AuxEmpty == js_files = NoDir \/ \A k \in 1..Len(js_files) : js_files[k] = <<>>

\* C13: a symbol whose name occurs as a whole word in the JavaScript
\* sources is never in the unused list; without JavaScript text a symbol is
\* in the unused list exactly when the source corpus does not reference it.
C13_AuxiliaryReferenceCounts ==
    AfterUnused =>
        \A name \in DOMAIN all_symbols :
            /\ AuxOcc(name) => name \notin unused
            /\ AuxEmpty => (name \in unused <=> SourceUnreferenced(name))

\* C13 witness: a run has ended in which a symbol that no source file
\* references is kept out of the unused list by the JavaScript text.
C13_Witness ==
    /\ pc = "exited"
    /\ \E name \in DOMAIN all_symbols :
          /\ SourceUnreferenced(name)
          /\ AuxOcc(name)
          /\ name \notin unused

\* The definitions the recognizers record in the file q: the kind and the
\* match of each.
DefinitionsIn(q) ==
    LET clean == CleanOf(PathStr(q))
        of(type, kind) ==
            {[type |-> type, m |-> FindIter(kind, clean, 1)[k]] :
                k \in {j \in 1..Len(FindIter(kind, clean, 1)) :
                          Recorded(type, q, FindIter(kind, clean, 1)[j])}}
    IN of("function", "func_def") \cup of("define", "define") \cup of("class", "class")

\* The definitions of name in the k-th file of the collection.
DefinitionsOf(name, k) == {d \in DefinitionsIn(files[k]) : d.m.name = name}

\* C14: every record of the symbol table is that of the first definition of
\* its name: of the first file of the collection that defines the name and,
\* in that file, of the definition that comes first in the text.
C14_FirstDefinitionWins ==
    AfterUnused =>
        \A name \in DOMAIN all_symbols :
            \E k \in 1..Len(files) :
                /\ \A j \in 1..(k - 1) : DefinitionsOf(name, j) = {}
                /\ \E d \in DefinitionsOf(name, k) :
                      /\ \A e \in DefinitionsOf(name, k) : d.m.start <= e.m.start
                      /\ all_symbols[name].file = PathStr(files[k])
                      /\ all_symbols[name].type = d.type
                      /\ all_symbols[name].line = LineNo(CleanOf(PathStr(files[k])), d.m)

\* The paths of the requests of the given kind issued so far.
Requested(kind) == {reqs[i].path : i \in {j \in 1..Len(reqs) : reqs[j].kind = kind}}

\* The positions in reqs of the requests of the given kinds.
RequestsAt(kinds) == {i \in 1..Len(reqs) : reqs[i].kind \in kinds}

\* The paths on the device of the local files that sync_files uploads.
LocalTargets == DOMAIN get_local_files(ufs)

\* The paths of the device in use that end in .html, .js or .css.
WebAssets == {"/index.html", "/js/app.js", "/js/old.js", "/old.html"}

\* The files of the listing that are web assets without a local counterpart.
Orphans ==
    {f \in Range(remote_files) :
        /\ f \in WebAssets
        /\ f \notin LocalTargets}

C16_EveryChangeUploaded ==
    /\ \A i \in 1..Len(wlog) :
          LET found == {j \in 1..(i - 1) : wlog[j].mtime # Missing} IN
          wlog[i].uploaded <=>
              /\ wlog[i].mtime # Missing
              /\ found # {}
              /\ wlog[SetMax(found \cup {1})].mtime # wlog[i].mtime
    /\ umode = "watch" =>
          Cardinality(RequestsAt({"upload"})) =
              Cardinality({i \in 1..Len(wlog) : wlog[i].uploaded})

\* Whether every download of the backup comes before the first upload and
\* the first delete request.
BackupFirst ==
    /\ RequestsAt({"upload", "delete"}) # {} =>
          Requested("get") = Range(BACKUP_FILES)
    /\ \A i \in RequestsAt({"get"}) : \A j \in RequestsAt({"upload", "delete"}) : i < j

\* C17 as stated: a run with --sync or --all and without --no-backup
\* downloads the backup before its first upload and its first delete
\* request, and a run with --no-backup downloads no backup.
C17_BackupBeforeAnyChange ==
    /\ (args.sync \/ args.all) /\ ~args.no_backup => BackupFirst
    /\ args.no_backup => Requested("get") = {}

\* C17 amended: a run in which main() takes the sync branch or the all
\* branch (no option of an earlier branch is given) downloads the whole
\* backup before its first upload and its first delete request unless
\* --no-backup is given, and with --no-backup downloads no backup.
C17_BackupBeforeSyncOrAll ==
    Mode \in {"sync", "all"} =>
        /\ ~args.no_backup => BackupFirst
        /\ args.no_backup => Requested("get") = {}

\* C17 witness: a sync without --no-backup has ended after the four
\* downloads of the backup, then uploads, then deletes.
C17_Witness ==
    /\ Mode = "sync" /\ ~args.no_backup /\ upc = "exit"
    /\ Requested("get") = Range(BACKUP_FILES)
    /\ RequestsAt({"upload"}) # {}
    /\ RequestsAt({"delete"}) # {}

\* The file-scope variable declarations RE_GLOBAL_VAR finds in the file fp.
VariablesIn(fp) ==
    {FindIter("global_var", CleanOf(fp), 1)[k] :
        k \in 1..Len(FindIter("global_var", CleanOf(fp), 1))}

\* C18: every file-scope variable whose name is not reserved and does not
\* start with an underscore has a record in the symbol table, of kind
\* variable when no other recognizer records the name, and is in the unused
\* list when nothing references it.
C18_VariablesRecorded ==
    AfterUnused =>
        \A fp \in Corpus : \A m \in VariablesIn(fp) :
            (m.name \notin FRAMEWORK_SYMBOLS /\ m.first \notin UnderscoreToks) =>
                /\ m.name \in DOMAIN all_symbols
                /\ (\A k \in 1..Len(files) : DefinitionsOf(m.name, k) = {})
                       => all_symbols[m.name].type = "variable"
                /\ Unreferenced(m.name) => m.name \in unused

\* C19: no record of the symbol table has a framework-reserved name or a
\* name that starts with an underscore.
C19_NoReservedRecord ==
    \A name \in DOMAIN all_symbols :
        name \notin FRAMEWORK_SYMBOLS /\ name \notin UnderscoreToks

\* The local include directives of the file fp whose header is in the corpus.
AuditedIncludes(fp) ==
    LET ms == FindIter("include", strip_comments(disk[fp].text), 1) IN
    {ms[k] : k \in {j \in 1..Len(ms) :
                       /\ IsLocalInclude(ms[j].toks)
                       /\ ResolveHeader(ms[j].name, disk) \in Corpus}}

\* Whether the include directive m of the file fp is reported.
Flagged(fp, m) ==
    \E k \in 1..Len(include_issues) :
        /\ include_issues[k].file = fp
        /\ include_issues[k].include = m.name
        /\ include_issues[k].line = LineNo(strip_comments(disk[fp].text), m)

\* Whether the clean text of fp holds no exported name of the header of m
\* that is at least 3 characters long.
NoLongNameUsed(fp, m) ==
    \A sym \in HeaderSymbols(CleanOf(ResolveHeader(m.name, disk))) :
        Len(sym) >= 3 => Occ(sym, CleanOf(fp)) = 0

IncludeTarget(m) ==
    LET inc == "include" \o "/" \o m.name
        src == "src" \o "/" \o m.name
    IN IF inc \in DOMAIN disk THEN inc ELSE IF src \in DOMAIN disk THEN src ELSE ""

\* No include whose target is missing or is not a scanned file is reported,
\* and an include after it whose target is scanned is judged as usual.
UnauditableSkipped ==
    \A fp \in Corpus :
        LET ms == FindIter("include", strip_comments(disk[fp].text), 1) IN
        \A j \in 1..Len(ms) :
            IncludeTarget(ms[j]) \notin Corpus =>
                /\ ~Flagged(fp, ms[j])
                /\ \A k \in (j + 1)..Len(ms) :
                      IncludeTarget(ms[k]) \in Corpus =>
                          (Flagged(fp, ms[k]) <=>
                              /\ HeaderSymbols(CleanOf(IncludeTarget(ms[k]))) # {}
                              /\ \A sym \in HeaderSymbols(CleanOf(IncludeTarget(ms[k]))) :
                                    Len(sym) >= 3 => Occ(sym, CleanOf(fp)) = 0)

\* C21: once the audit is over, no include whose target cannot be resolved
\* or is not a scanned file has a finding, and the includes that follow it
\* in the same file are still judged; a run that ended with an error is one
\* that could not read a collected file, never one stopped by an include.
C21_UnauditableIncludeSkipped ==
    /\ AfterAudit => UnauditableSkipped
    /\ pc = "crashed" => \E fp \in Corpus : fp \notin DOMAIN all_contents_raw

\* C21 witness: the source file includes the unscanned core/h2.hpp and then
\* core/h1.h, whose only export foo it does not use; the audit is over with
\* one finding, for line 2.
C21_Witness ==
    /\ AfterAudit
    /\ PathStr(SourcePath) \in Corpus /\ PathStr(HeaderPath) \in Corpus
    /\ PathStr(H2Path) \in DOMAIN disk /\ PathStr(H2Path) \notin Corpus
    /\ disk[PathStr(SourcePath)].text = JoinLines(<<IncludeH2, IncludeH1>>)
    /\ disk[PathStr(HeaderPath)].text = Decl("foo")
    /\ Len(include_issues) = 1
    /\ include_issues[1].line = 2 /\ include_issues[1].include = "core/h1.h"

\* One step of a C compiler's reading of the text s at position i in the
\* given mode: "code", "line" (a // comment), "block" (a block comment),
\* "string" or "char" (a literal), "bad" after a literal cut by a newline.
\* The step gives the next position, the next mode, and whether the token
\* at i is content of the mode (not a delimiter).
LexStep(s, i, mode) ==
    CASE mode = "code" ->
             IF s[i] = "/" /\ Tok(s, i + 1) = "/" THEN [next |-> i + 2, mode |-> "line", content |-> FALSE]
             ELSE IF s[i] = "/" /\ Tok(s, i + 1) = "*" THEN [next |-> i + 2, mode |-> "block", content |-> FALSE]
             ELSE IF s[i] = QUOTE THEN [next |-> i + 1, mode |-> "string", content |-> FALSE]
             ELSE IF s[i] = APOS THEN [next |-> i + 1, mode |-> "char", content |-> FALSE]
             ELSE [next |-> i + 1, mode |-> "code", content |-> TRUE]
      [] mode = "line" ->
             IF s[i] = NL THEN [next |-> i + 1, mode |-> "code", content |-> FALSE]
             ELSE [next |-> i + 1, mode |-> "line", content |-> TRUE]
      [] mode = "block" ->
             IF s[i] = "*" /\ Tok(s, i + 1) = "/" THEN [next |-> i + 2, mode |-> "code", content |-> FALSE]
             ELSE [next |-> i + 1, mode |-> "block", content |-> TRUE]
      [] mode \in {"string", "char"} ->
             IF s[i] = BSLASH THEN [next |-> i + 2, mode |-> mode, content |-> FALSE]
             ELSE IF s[i] = NL THEN [next |-> i + 1, mode |-> "bad", content |-> FALSE]
             ELSE IF s[i] = (IF mode = "string" THEN QUOTE ELSE APOS)
                  THEN [next |-> i + 1, mode |-> "code", content |-> FALSE]
             ELSE [next |-> i + 1, mode |-> mode, content |-> TRUE]
      [] OTHER -> [next |-> i + 1, mode |-> "bad", content |-> FALSE]

\* The set of <<position, mode>> of the content tokens of s from i on.
RECURSIVE LexModes(_, _, _)
LexModes(s, i, mode) ==
    IF i > Len(s) THEN {}
    ELSE LET st == LexStep(s, i, mode) IN
         (IF st.content THEN {<<i, mode>>} ELSE {}) \cup LexModes(s, st.next, st.mode)

\* The mode in which the reading of s from i on ends.
RECURSIVE LexEnd(_, _, _)
LexEnd(s, i, mode) ==
    IF i > Len(s) THEN mode
    ELSE LexEnd(s, LexStep(s, i, mode).next, LexStep(s, i, mode).mode)

\* Every comment and literal of s is closed.
WellFormed(s) == LexEnd(s, 1, "code") \in {"code", "line"}

\* The whole-word occurrences of name in the raw text s that lie in one of
\* the given modes.
OccsIn(modes, name, s) ==
    {i \in 1..Len(s) :
        /\ \E m \in modes : <<i, m>> \in LexModes(s, 1, "code")
        /\ s[i] = name
        /\ ~IsWord(Tok(s, i - 1))
        /\ ~IsWord(Tok(s, i + 1))}

\* C22: in a text whose comments and literals are all closed, a name that
\* occurs only inside comments and string literals does not occur in the
\* clean text, and a name that occurs in code does (shown for the name a).
C22_OnlyCodeCounts ==
    (nstage \in {"clean", "done"} /\ WellFormed(ntext)) =>
        /\ (/\ OccsIn({"line", "block", "string"}, "a", ntext) # {}
            /\ OccsIn({"code", "char"}, "a", ntext) = {}) => Occ("a", nclean) = 0
        /\ OccsIn({"code"}, "a", ntext) # {} => Occ("a", nclean) > 0

\* The places where text holds name as a proper part of a longer identifier.
PartOccs(name, text) ==
    {i \in 1..Len(text) :
        /\ text[i] = name
        /\ IsWord(Tok(text, i - 1)) \/ IsWord(Tok(text, i + 1))}

\* C23: a file that holds the name of a symbol only as part of longer
\* identifiers is not among the files count_references returns for it (its
\* own file when it holds the name whole fewer than two times), and when
\* nothing else refers to the symbol it is in the unused list.
C23_WholeWordOnly ==
    AfterUnused =>
        \A name \in DOMAIN all_symbols :
            LET own == all_symbols[name].file
                refs == count_references(name, all_contents_clean, own)
            IN /\ \A fp \in Corpus \ {own} :
                      (PartOccs(name, CleanOf(fp)) # {} /\ Occ(name, CleanOf(fp)) = 0)
                          => fp \notin refs
               /\ (PartOccs(name, CleanOf(own)) # {} /\ Occ(name, CleanOf(own)) < 2)
                      => own \notin refs
               /\ ((\E fp \in Corpus : PartOccs(name, CleanOf(fp)) # {}) /\ Unreferenced(name))
                      => name \in unused

\* C23 witness: the source file defines foo, the header only calls foofn,
\* and the run has ended with foo in the unused list.
C23_Witness ==
    /\ pc = "exited"
    /\ PathStr(HeaderPath) \in Corpus /\ PathStr(SourcePath) \in Corpus
    /\ disk[PathStr(SourcePath)].text = FDef("foo")
    /\ disk[PathStr(HeaderPath)].text = LongerCall("foo")
    /\ "foo" \in DOMAIN all_symbols /\ all_symbols["foo"].file = PathStr(SourcePath)
    /\ PartOccs("foo", CleanOf(PathStr(HeaderPath))) # {}
    /\ "foo" \in unused

\* The position of the path q in PathOrder.
OrderOf(q) == CHOOSE i \in 1..Len(PathOrder) : PathOrder[i] = q

\* The files collect_files is to return: those below a scan directory with
\* a recognized extension and no skip name among the directories between
\* the root and the file, and the .ino and .cpp files at the top of the root.
ToCollect ==
    {q \in Range(PathOrder) :
        /\ PathStr(q) \in DOMAIN disk
        /\ \/ /\ Len(q) >= 2 /\ q[1] \in SCAN_DIRS
              /\ SuffixOf(Last(q)) \in EXTENSIONS
              /\ \A i \in 1..(Len(q) - 1) : q[i] \notin SKIP_DIRS
           \/ Len(q) = 1 /\ SuffixOf(Last(q)) \in {".ino", ".cpp"}}

\* C24: once collect_files has returned, files is sorted, holds no path
\* twice, and holds exactly the files to collect, whatever the directories
\* above the root are called.
C24_CollectsExactly ==
    pc \notin {"off", "start"} =>
        /\ Range(files) = ToCollect
        /\ \A i, j \in 1..Len(files) : i < j => OrderOf(files[i]) < OrderOf(files[j])

\* The corpus maps and the symbol table are complete: the extract loop has
\* ended.
BuildDone ==
    \/ pc = "extract" /\ idx > Len(files)
    \/ pc \in {"defines", "includes", "externs", "summary", "returned", "exited"}

\* C25: a turn of the read loop reads a file that no earlier turn has read;
\* the corpus maps and the symbol table change only before the build is
\* done; the results of the analysis passes change only once it is done;
\* and once done it stays done.
C25_BuildThenQuery ==
    [][/\ (pc = "read" /\ idx <= Len(files) /\ idx' = idx + 1) =>
              \A k \in 1..(idx - 1) : files[k] # files[idx]
       /\ (\/ all_contents_raw' # all_contents_raw
           \/ all_contents_clean' # all_contents_clean
           \/ all_symbols' # all_symbols) => ~BuildDone
       /\ (\/ unused' # unused
           \/ unused_defines' # unused_defines
           \/ include_issues' # include_issues
           \/ orphans' # orphans) => BuildDone
       /\ BuildDone => BuildDone']_vars

\* C25 witness: a run over two files that were both read has ended, with a
\* symbol table that is not empty and findings of the reference pass and of
\* the include audit.
C25_Witness ==
    /\ pc = "exited"
    /\ Len(files) = 2
    /\ Corpus \subseteq DOMAIN all_contents_raw
    /\ DOMAIN all_contents_clean = DOMAIN all_contents_raw
    /\ DOMAIN all_symbols # {}
    /\ unused # {}
    /\ include_issues # <<>>

\* The files of the corpus that are not headers.
NonHeaderFiles == {PathStr(q) : q \in {r \in Range(files) : SuffixOf(Last(r)) # ".h"}}

\* C26: an extern declaration of a header whose name has a defining
\* occurrence outside an extern declaration in some file of the corpus that
\* is not a header (.cpp, .ino or .c) is not reported as an orphan.
C26_AnyImplementationFileSuppresses ==
    AfterExterns =>
        \A j \in 1..Len(orphans) :
            ~\E fp \in NonHeaderFiles : GenuineDefinition(orphans[j].name, CleanOf(fp))

IsUpload(r) == r.kind = "upload"

\* The paths of the upload requests issued so far, in order.
UploadedPaths ==
    [i \in 1..Len(SelectSeq(reqs, IsUpload)) |-> SelectSeq(reqs, IsUpload)[i].path]

\* C27: in a sync whose listing request failed there is no delete request,
\* and once the upload loop has ended there has been one upload request for
\* each local file; and in no sync, whatever its uploads returned, is there
\* a delete request for the path of a local file.
C27_FailedListDeletesNothing ==
    Mode = "sync" =>
        /\ list_status = "failed" =>
              /\ Requested("delete") = {}
              /\ upc \in {"delete", "exit"} => UploadedPaths = Sorted(LocalTargets)
        /\ Requested("delete") \cap LocalTargets = {}

\* C27 witness: a sync has ended whose listing request failed; it has asked
\* to upload each of its local files, at least one upload has failed, and
\* it has asked for no deletion.
C27_Witness ==
    /\ Mode = "sync" /\ upc = "exit"
    /\ list_status = "failed"
    /\ LocalTargets # {}
    /\ UploadedPaths = Sorted(LocalTargets)
    /\ success < Len(queue)
    /\ Requested("delete") = {}

\* The sum of the counts of a counter.
RECURSIVE SumOf(_)
SumOf(counter) ==
    IF DOMAIN counter = {} THEN 0
    ELSE LET k == CHOOSE x \in DOMAIN counter : TRUE IN
         counter[k] + SumOf([x \in DOMAIN counter \ {k} |-> counter[x]])

OwnedBySonarlint(issue) == issue.owner = "sonarlint"

\* C28: what analyze returns partitions its input: total is the number of
\* issues, sonarlint_count the number of those owned by sonarlint,
\* other_count the number of the others; the counts of by_rule, of by_file
\* and of by_severity each add up to sonarlint_count; and the three
\* breakdowns are those of the list without the issues of other owners.
C28_CountsPartitionInput ==
    spc = "analyzed" =>
        /\ results.total = Len(issues)
        /\ results.sonarlint_count = Len(SelectSeq(issues, OwnedBySonarlint))
        /\ results.sonarlint_count + results.other_count = results.total
        /\ SumOf(results.by_rule) = results.sonarlint_count
        /\ SumOf(results.by_file) = results.sonarlint_count
        /\ SumOf(results.by_severity) = results.sonarlint_count
        /\ LET alone == analyze(SelectSeq(issues, OwnedBySonarlint), project_root) IN
           /\ results.by_rule = alone.by_rule
           /\ results.by_file = alone.by_file
           /\ results.by_severity = alone.by_severity

\* C28 witness: analyze has returned for a report of three issues, two of
\* sonarlint under the rule S125 with different codes and one of another
\* owner.
C28_Witness ==
    /\ spc = "analyzed"
    /\ Len(issues) = 3
    /\ results.sonarlint_count = 2 /\ results.other_count = 1
    /\ "S125" \in DOMAIN results.by_rule /\ results.by_rule["S125"] = 2
    /\ Cardinality(DOMAIN results.by_severity) = 2

====
